---- MODULE Spec2Model ----
(***************************************************************************)
(* A model of the safe view layer of assimp-rs: the bounded iterators and  *)
(* indexed lookups generated over foreign arrays, the arena life cycle and *)
(* the material property decoder.                                          *)
(*                                                                         *)
(* Foreign memory.  An address is a natural number, 0 is the null pointer. *)
(* Option<NonNull<T>> is modelled by the address itself, 0 standing for    *)
(* None (NonNull::new(p) is None exactly when p is null).  One array       *)
(* element occupies one address, so ptr.offset(i) is ptr + i.  The array   *)
(* under inspection lives at ArrBase .. ArrBase + MaxLen; the addresses    *)
(* 1 .. MaxWord are records that live elsewhere in the arena.  A slot of   *)
(* the array holds one word 0 .. MaxWord: for an array of pointers it is   *)
(* the address of a record (0: a null slot), for an array of records it is *)
(* the record's content.                                                   *)
(***************************************************************************)
EXTENDS Integers, Sequences, FiniteSets, TLC

\* Import requests (arena handles) in one run.
MaxArenas == 2
\* Live views borrowed from one arena at a time.
MaxViews == 1
\* Largest texture slot index of a material key.
MaxIndex == 1
\* Integer payloads 0 .. MaxPayload of a material property, besides the
\* payloads with high bits set.
MaxPayload == 11
\* Largest texture count the engine reports for a material component.
MaxTextures == 2
\* Largest element count (mNum...) of a foreign array.
MaxLen == 3
\* Number of distinct non-zero words a slot can hold.
MaxWord == 2
\* Largest element size, in bytes, the engine asks the I/O bridge for.
MaxSize == 3
\* Largest number of calls made on one log stream before it is dropped.
MaxOps == 4
\* Largest colour set / texture coordinate channel number asked for.
MaxChannel == 8
\* Size in bytes of a texture's format hint field.
MaxHint == 4

VARIABLES
    field,      \* which foreign array (struct field) is under inspection
    mPtr,       \* the array pointer stored in the foreign struct (0: null)
    mNum,       \* the element count stored in the foreign struct
    mem,        \* the words at ArrBase + 0 .. ArrBase + MaxLen
    iter,       \* the iterator built by the accessor: [made, ptr, len]
    yielded,    \* what each call of next() returned, in order
    itTouched,  \* array offsets the iterator read or handed out so far
    res,        \* the last indexed lookup: [done, idx, out, at]
    arena,      \* per import request: "Unopened", "Opened" or "Released"
    result,     \* per import request: what the import call returned
    engineErr,  \* per import request: the error code the engine reported
    releases,   \* per import request: release calls issued to the engine
    views,      \* per arena: live views borrowed from the arena root
    rawHeld,    \* per arena: safe code keeps a NonNull got from to_raw()
    freeIter,   \* per arena: a live iterator built by the public new()
    staleUse,   \* a view or iterator was dereferenced after the release
    closing,    \* per handle: the root's scope is ending, no new borrows
    mbag,       \* the material's property bag (a set of foreign properties)
    mkey,       \* the MaterialKey asked for
    mres,       \* what get_value returned: [done, tag, variant, val]
    mtype,      \* the MaterialComponentType component() is asked for
    mcount,     \* the texture count the engine reports for that type
    mcomp,      \* what component() returned: [done, some, color, len]
    titer,      \* the texture iterator's range: [next, end]
    tslot,      \* what the engine answered for the slot last asked
    tdef,       \* the TextureDefinition last produced
    tseen,      \* the slot indices of the definitions produced, in order
    tpanic,     \* the texture closure panicked
    mMeshes,    \* a node's mesh index array pointer (0: null)
    mNumMeshes, \* a node's mesh index count
    meshIdx,    \* the words of the node's mesh index array
    sceneMeshes,\* the number of meshes of the scene
    nres,       \* what Node::meshes() returned: [done, tag, items]
    sres,       \* the last mesh lookup in the scene: [done, id, some, at]
    mIndices,   \* a face's index array pointer (0: null)
    mNumIndices,\* a face's index count
    faceIdx,    \* the words of the face's index array
    fres,       \* what Face::indices() returned: [done, tag, items]
    kres,       \* what Face::primitive_type() returned: [done, tag, kind]
    ioOp,       \* the bridge callback the engine called: "read" or "write"
    ioSize,     \* its size argument: bytes per element
    ioCount,    \* its count argument: number of elements
    ioPhase,    \* "Idle", "Called", "Loop", "Returned" or "Panicked"
    ioTotal,    \* the stride loop's tally of full elements
    ioLog,      \* the backend calls issued so far: [off, len, ans]
    ioRet,      \* the value returned to the engine: [err, v]
    lsKind,     \* the constructor the LogStream came from ("-": none)
    lsAttached, \* the stream's attached field
    lsCalls,    \* the methods called on the stream, in order
    lsForeign,  \* the engine calls the stream issued, in order
    lsSeen,     \* what attached() returned last: [asked, v]
    lsDropped,  \* the stream was dropped
    mMetaData,  \* a node's metadata pointer (0: null)
    mNumProperties, \* the metadata record's property count
    mKeys,      \* the metadata record's key array pointer (0: null)
    mValues,    \* the metadata record's value array pointer (0: null)
    metaIter,   \* the Metadata iterator: [made, index]
    metaOut,    \* what each call of its next() returned, in order
    metaFault,  \* "-", or how the process died: "Abort" or "Fault"
    metaRead,   \* the addresses read through the iterator's reference
    pcData,     \* a texture's texel pointer (0: null)
    mWidth,     \* the texture's width
    mHeight,    \* the texture's height
    xres,       \* what Texture::data() returned: [done, some, len]
    mColors,    \* a mesh's colour set pointers, per set (0: null)
    mTextureCoords, \* a mesh's texture coordinate pointers, per channel
    chCall,     \* the channel accessor called last: [fn, set]
    chEnd,      \* "-", or how that call ended: "Panic" or "Fault"
    achFormatHint, \* a texture's format hint field, byte by byte
    hres,       \* what Texture::format_hint() returned: [done, tag, text]
    mType, \* a metadata entry's type tag
    mData, \* the entry's data pointer (0: null)
    eres,       \* what MetadataEntry::get() returned: [done, tag, variant]
    ecalls,     \* how often get() was called on the entry
    fOpen, \* io_open: [called, ans, handle] (handle 0: null)
    fFile, \* the backend file: "-", "Alive" or "Dropped"
    fEvents, \* close() calls and drops of the backend file, in order
    fLog, \* the callbacks the engine made on the handle, in order
    fEnd, \* "-", "Closed" after io_close, "Panic" after a panic
    vArrays, \* a mesh's mVertices, mNormals, mTangents, mBitangents (0: null)
    vIters, \* the four iterators held by vertices(): [made, pos, ...]
    vOut \* what each call of next() on vertices() returned, in order

viewVars == <<field, mPtr, mNum, mem, iter, yielded, itTouched, res>>

arenaVars ==
    <<arena, result, engineErr, releases, views, rawHeld, freeIter, staleUse,
      closing>>

matVars == <<mbag, mkey, mres>>

compVars == <<mtype, mcount, mcomp, titer, tslot, tdef, tseen, tpanic>>

nodeVars == <<mMeshes, mNumMeshes, meshIdx, sceneMeshes, nres, sres>>

\* The state of the parts modelled further down.
faceVars == <<mIndices, mNumIndices, faceIdx, fres, kres>>

\* The parts modelled after the nodes.
ioVars == <<ioOp, ioSize, ioCount, ioPhase, ioTotal, ioLog, ioRet>>

logVars == <<lsKind, lsAttached, lsCalls, lsForeign, lsSeen, lsDropped>>

metaVars ==
    <<mMetaData, mNumProperties, mKeys, mValues, metaIter, metaOut,
      metaFault, metaRead, pcData, mWidth, mHeight, xres>>

chanVars == <<mColors, mTextureCoords, chCall, chEnd>>

\* The parts modelled last.
hintVars == <<achFormatHint, hres>>

entryVars == <<mType, mData, eres, ecalls>>

fileVars == <<fOpen, fFile, fEvents, fLog, fEnd>>

vertVars == <<vArrays, vIters, vOut>>

lateVars == <<chanVars, hintVars, entryVars, fileVars, vertVars>>

restVars == <<faceVars, ioVars, logVars, metaVars, lateVars>>

extVars == <<compVars, nodeVars, restVars>>

\* What the steps of each part leave alone.
compFrame == <<viewVars, arenaVars, matVars, nodeVars, restVars>>
nodeFrame == <<viewVars, arenaVars, matVars, compVars, restVars>>
faceFrame ==
    <<viewVars, arenaVars, matVars, compVars, nodeVars, ioVars, logVars,
      metaVars, lateVars>>
ioFrame ==
    <<viewVars, arenaVars, matVars, compVars, nodeVars, faceVars, logVars,
      metaVars, lateVars>>
logFrame ==
    <<viewVars, arenaVars, matVars, compVars, nodeVars, faceVars, ioVars,
      metaVars, lateVars>>
metaFrame ==
    <<viewVars, arenaVars, matVars, compVars, nodeVars, faceVars, ioVars,
      logVars, lateVars>>
chanFrame ==
    <<arenaVars, matVars, compVars, nodeVars, faceVars, ioVars, logVars,
      metaVars, hintVars, entryVars, fileVars, vertVars>>
hintFrame ==
    <<viewVars, arenaVars, matVars, compVars, nodeVars, faceVars, ioVars,
      logVars, metaVars, chanVars, entryVars, fileVars, vertVars>>
entryFrame ==
    <<viewVars, arenaVars, matVars, compVars, nodeVars, faceVars, ioVars,
      logVars, metaVars, chanVars, hintVars, fileVars, vertVars>>
fileFrame ==
    <<viewVars, arenaVars, matVars, compVars, nodeVars, faceVars, ioVars,
      logVars, metaVars, chanVars, hintVars, entryVars, vertVars>>
vertFrame ==
    <<arenaVars, matVars, compVars, nodeVars, faceVars, ioVars, logVars,
      metaVars, chanVars, hintVars, entryVars, fileVars>>

vars == <<viewVars, arenaVars, matVars, extVars>>

ArrBase == MaxWord + 1

Fields ==
    {"mFaces", "mBones", "mWeights", "mChannels", "mPositionKeys",
     "mRotationKeys", "mScalingKeys", "mVertices", "mNormals", "mTangents",
     "mBitangents"}

\* ---------------------------------------------------------------- values

None == [some |-> FALSE, kind |-> "none", v |-> 0]

\* A borrowed view &'a T of the record at address a (define_type!::from_raw).
SomeRef(a) == [some |-> TRUE, kind |-> "ref", v |-> a]

\* A value copied out of the array (the POD arm of define_type!).
SomeVal(w) == [some |-> TRUE, kind |-> "val", v |-> w]

\* The word at address a.  Outside the array the arena holds other data,
\* which reads as the word 1.
Mem(a) ==
    IF a >= ArrBase /\ a - ArrBase \in DOMAIN mem THEN mem[a - ArrBase] ELSE 1

\* The array offset of address a.
Off(a) == a - ArrBase

\* ------------------------------------------------------ bounded iterators

define_iter_new(ptr, len) == [made |-> TRUE, ptr |-> ptr, len |-> len]

NoIter == [made |-> FALSE, ptr |-> 0, len |-> 0]

\* A step of next(): the item, the iterator afterwards, the offsets touched.
Step(item, self, at) == [item |-> item, self |-> self, at |-> at]

\* Mutant: the cursor moves on but the remaining count is not decremented.
Advance_keeps_len(self) == [self EXCEPT !.ptr = self.ptr + 1]

Advance(self) == [self EXCEPT !.ptr = self.ptr + 1, !.len = self.len - 1]

impl_iterator_next(self) ==
    IF self.len > 0
    THEN IF self.ptr = 0
         THEN Step(None, self, {})
         ELSE Step(SomeRef(self.ptr), Advance(self), {Off(self.ptr)})
    ELSE Step(None, self, {})

\* Mutant: the cursor steps over a null slot instead of staying on it.
impl_iterator_indirect_next_skipping(self) ==
    IF self.len > 0
    THEN IF self.ptr = 0
         THEN Step(None, self, {})
         ELSE IF Mem(self.ptr) = 0
              THEN Step(None, Advance(self), {Off(self.ptr)})
              ELSE Step(SomeRef(Mem(self.ptr)), Advance(self), {Off(self.ptr)})
    ELSE Step(None, self, {})

impl_iterator_indirect_next(self) ==
    IF self.len > 0
    THEN IF self.ptr = 0
         THEN Step(None, self, {})
         ELSE IF Mem(self.ptr) = 0
              THEN Step(None, self, {Off(self.ptr)})
              ELSE Step(SomeRef(Mem(self.ptr)), Advance(self), {Off(self.ptr)})
    ELSE Step(None, self, {})

\* Mutant: the `self.ptr?` early return is missing.
impl_iterator_pod_next_unchecked(self) ==
    IF self.len > 0
    THEN Step(SomeVal(Mem(self.ptr)), Advance(self), {Off(self.ptr)})
    ELSE Step(None, self, {})

impl_iterator_pod_next(self) ==
    IF self.len > 0
    THEN IF self.ptr = 0
         THEN Step(None, self, {})
         ELSE Step(SomeVal(Mem(self.ptr)), Advance(self), {Off(self.ptr)})
    ELSE Step(None, self, {})

ExactSizeIterator_len(self) == self.len

\* The iterator types stamped out by the macros.
FaceIter_next(self) == impl_iterator_next(self)
VectorKeyIter_next(self) == impl_iterator_next(self)
QuatKeyIter_next(self) == impl_iterator_next(self)
BoneIter_next(self) == impl_iterator_indirect_next(self)
VertexWeightIter_next(self) == impl_iterator_indirect_next(self)
NodeAnimIter_next(self) == impl_iterator_indirect_next(self)
Vector3DIter_next(self) == impl_iterator_pod_next(self)

\* ------------------------------------------------------ iterator accessors

Mesh_faces == define_iter_new(mPtr, mNum)
Mesh_bones == define_iter_new(mPtr, mNum)
Bone_weights == define_iter_new(mPtr, mNum)
Animation_node_anims == define_iter_new(mPtr, mNum)
NodeAnim_position_keys == define_iter_new(mPtr, mNum)
NodeAnim_rotation_keys == define_iter_new(mPtr, mNum)
NodeAnim_scaling_keys == define_iter_new(mPtr, mNum)
Mesh_positions == define_iter_new(mPtr, mNum)
Mesh_normals == define_iter_new(mPtr, mNum)
Mesh_tangents == define_iter_new(mPtr, mNum)
Mesh_bitangents == define_iter_new(mPtr, mNum)

IterOf(f) ==
    CASE f = "mFaces" -> Mesh_faces
      [] f = "mBones" -> Mesh_bones
      [] f = "mWeights" -> Bone_weights
      [] f = "mChannels" -> Animation_node_anims
      [] f = "mPositionKeys" -> NodeAnim_position_keys
      [] f = "mRotationKeys" -> NodeAnim_rotation_keys
      [] f = "mScalingKeys" -> NodeAnim_scaling_keys
      [] f = "mVertices" -> Mesh_positions
      [] f = "mNormals" -> Mesh_normals
      [] f = "mTangents" -> Mesh_tangents
      [] f = "mBitangents" -> Mesh_bitangents

NextOf(f, self) ==
    CASE f = "mFaces" -> FaceIter_next(self)
      [] f = "mBones" -> BoneIter_next(self)
      [] f = "mWeights" -> VertexWeightIter_next(self)
      [] f = "mChannels" -> NodeAnimIter_next(self)
      [] f = "mPositionKeys" -> VectorKeyIter_next(self)
      [] f = "mRotationKeys" -> QuatKeyIter_next(self)
      [] f = "mScalingKeys" -> VectorKeyIter_next(self)
      [] f \in {"mVertices", "mNormals", "mTangents", "mBitangents"} ->
            Vector3DIter_next(self)

\* -------------------------------------------------------- indexed lookups

Got(out, at) == [out |-> out, at |-> at]

\* Mutant: an off-by-one bounds check.
InBounds_inclusive(id, count) == id <= count

\* `id < count`, the bounds check every indexed lookup starts with.
InBounds(id, count) == id < count

\* An array of records, the result borrows the record in place.
Mesh_face(id) ==
    IF InBounds(id, mNum)
    THEN IF mPtr = 0 THEN Got(None, {})
         ELSE Got(SomeRef(mPtr + id), {Off(mPtr + id)})
    ELSE Got(None, {})

\* An array of pointers to records, the result borrows the pointed-to record.
Mesh_bone(id) ==
    IF InBounds(id, mNum)
    THEN IF mPtr = 0 THEN Got(None, {})
         ELSE IF Mem(mPtr + id) = 0
              THEN Got(None, {Off(mPtr + id)})
              ELSE Got(SomeRef(Mem(mPtr + id)), {Off(mPtr + id)})
    ELSE Got(None, {})

\* An array of records, the result is a copy of the record.
Mesh_vertex_data(array, id) ==
    IF InBounds(id, mNum)
    THEN IF array = 0 THEN Got(None, {})
         ELSE Got(SomeVal(Mem(array + id)), {Off(array + id)})
    ELSE Got(None, {})

Mesh_position(id) == Mesh_vertex_data(mPtr, id)
Mesh_normal(id) == Mesh_vertex_data(mPtr, id)
Mesh_tangent(id) == Mesh_vertex_data(mPtr, id)
Mesh_bitangent(id) == Mesh_vertex_data(mPtr, id)

Bone_weight(id) ==
    IF InBounds(id, mNum)
    THEN IF mPtr = 0 THEN Got(None, {})
         ELSE Got(SomeRef(mPtr + id), {Off(mPtr + id)})
    ELSE Got(None, {})

Animation_get_node_anim(id) ==
    IF InBounds(id, mNum)
    THEN IF mPtr = 0 THEN Got(None, {})
         ELSE IF Mem(mPtr + id) = 0
              THEN Got(None, {Off(mPtr + id)})
              ELSE Got(SomeRef(Mem(mPtr + id)), {Off(mPtr + id)})
    ELSE Got(None, {})

NodeAnim_get_position_key(id) ==
    IF InBounds(id, mNum)
    THEN IF mPtr = 0 THEN Got(None, {})
         ELSE Got(SomeRef(mPtr + id), {Off(mPtr + id)})
    ELSE Got(None, {})

NodeAnim_get_rotation_key(id) ==
    IF InBounds(id, mNum)
    THEN IF mPtr = 0 THEN Got(None, {})
         ELSE Got(SomeRef(mPtr + id), {Off(mPtr + id)})
    ELSE Got(None, {})

NodeAnim_get_scaling_key(id) ==
    IF InBounds(id, mNum)
    THEN IF mPtr = 0 THEN Got(None, {})
         ELSE Got(SomeRef(mPtr + id), {Off(mPtr + id)})
    ELSE Got(None, {})

LookupOf(f, id) ==
    CASE f = "mFaces" -> Mesh_face(id)
      [] f = "mBones" -> Mesh_bone(id)
      [] f = "mWeights" -> Bone_weight(id)
      [] f = "mChannels" -> Animation_get_node_anim(id)
      [] f = "mPositionKeys" -> NodeAnim_get_position_key(id)
      [] f = "mRotationKeys" -> NodeAnim_get_rotation_key(id)
      [] f = "mScalingKeys" -> NodeAnim_get_scaling_key(id)
      [] f = "mVertices" -> Mesh_position(id)
      [] f = "mNormals" -> Mesh_normal(id)
      [] f = "mTangents" -> Mesh_tangent(id)
      [] f = "mBitangents" -> Mesh_bitangent(id)

\* No get_value call has been made on the material.
NotCalled == [done |-> FALSE, tag |-> "-", variant |-> "-", val |-> {}]

\* The material is not in use.
MatIdle ==
    /\ mbag = {}
    /\ mkey = [kind |-> "Name", comp |-> "-", index |-> 0]
    /\ mres = NotCalled

NoRes == [done |-> FALSE, idx |-> 0, out |-> None, at |-> {}]

\* No foreign array is under inspection.
ViewIdle ==
    /\ field = "mFaces"
    /\ mPtr = 0
    /\ mNum = 0
    /\ mem = [i \in 0 .. MaxLen |-> 1]
    /\ iter = NoIter
    /\ yielded = <<>>
    /\ itTouched = {}
    /\ res = NoRes

\* An engine out-parameter: written with a word, or left as it was.
Unwritten == [set |-> FALSE, v |-> {}]
Out(v) == [set |-> TRUE, v |-> v]

NoComponent == [done |-> FALSE, some |-> FALSE, color |-> {}, len |-> 0]
NoSlot ==
    [asked |-> FALSE, index |-> 0, ok |-> FALSE, mapping |-> {},
     uvindex |-> Unwritten, blend |-> Unwritten, op |-> Unwritten,
     flags |-> Unwritten]
NoDefinition ==
    [some |-> FALSE, strength |-> {}, blend_op |-> "-", mapping |-> "-",
     axis |-> "-", channel |-> {}, wrap_u |-> "-", wrap_v |-> "-",
     flags |-> {}]

\* component() has not been called on the material.
CompIdle ==
    /\ mtype = "Diffuse"
    /\ mcount = 0
    /\ mcomp = NoComponent
    /\ titer = [next |-> 0, end |-> 0]
    /\ tslot = NoSlot
    /\ tdef = NoDefinition
    /\ tseen = <<>>
    /\ tpanic = FALSE

NoSlice == [done |-> FALSE, tag |-> "-", items |-> <<>>]
NoMesh == [done |-> FALSE, id |-> 0, some |-> FALSE, at |-> {}]

\* No node is under inspection.
NodeIdle ==
    /\ mMeshes = 0
    /\ mNumMeshes = 0
    /\ meshIdx = <<>>
    /\ sceneMeshes = 0
    /\ nres = NoSlice
    /\ sres = NoMesh

NoKind == [done |-> FALSE, tag |-> "-", kind |-> "-"]

\* No face is under inspection.
FaceIdle ==
    /\ mIndices = 0
    /\ mNumIndices = 0
    /\ faceIdx = <<>>
    /\ fres = NoSlice
    /\ kres = NoKind

NoRet == [err |-> FALSE, v |-> 0]

\* The engine is not inside a bridge callback.
IoIdle ==
    /\ ioOp = "read"
    /\ ioSize = 0
    /\ ioCount = 0
    /\ ioPhase = "Idle"
    /\ ioTotal = 0
    /\ ioLog = <<>>
    /\ ioRet = NoRet

NotAsked == [asked |-> FALSE, v |-> FALSE]

\* No log stream exists.
LogIdle ==
    /\ lsKind = "-"
    /\ lsAttached = FALSE
    /\ lsCalls = <<>>
    /\ lsForeign = <<>>
    /\ lsSeen = NotAsked
    /\ lsDropped = FALSE

NoMeta == [made |-> FALSE, index |-> 0]
NoData == [done |-> FALSE, some |-> FALSE, len |-> 0]

\* No metadata record and no texture is under inspection.
MetaIdle ==
    /\ mMetaData = 0
    /\ mNumProperties = 0
    /\ mKeys = 0
    /\ mValues = 0
    /\ metaIter = NoMeta
    /\ metaOut = <<>>
    /\ metaFault = "-"
    /\ metaRead = {}
    /\ pcData = 0
    /\ mWidth = 0
    /\ mHeight = 0
    /\ xres = NoData

\* The colour sets and texture coordinate channels a mesh has room for.
ChannelSlots == 0 .. 7

NoCall == [fn |-> "-", set |-> 0]

\* No mesh channel is under inspection.
ChanIdle ==
    /\ mColors = [c \in ChannelSlots |-> 0]
    /\ mTextureCoords = [c \in ChannelSlots |-> 0]
    /\ chCall = NoCall
    /\ chEnd = "-"

NoHint == [done |-> FALSE, tag |-> "-", text |-> <<>>]

\* No texture's format hint is under inspection.
HintIdle ==
    /\ achFormatHint = <<>>
    /\ hres = NoHint

NoEntry == [done |-> FALSE, tag |-> "-", variant |-> "-"]

\* No metadata entry is under inspection.
EntryIdle ==
    /\ mType = "AI_BOOL"
    /\ mData = 0
    /\ eres = NoEntry
    /\ ecalls = 0

NotOpened == [called |-> FALSE, ans |-> "-", handle |-> 0]

\* The engine has asked for no file.
FileIdle ==
    /\ fOpen = NotOpened
    /\ fFile = "-"
    /\ fEvents = <<>>
    /\ fLog = <<>>
    /\ fEnd = "-"

NoArrays == [pos |-> 0, normal |-> 0, tangent |-> 0, bitangent |-> 0]
NoIters ==
    [made |-> FALSE, pos |-> NoIter, normal |-> NoIter, tangent |-> NoIter,
     bitangent |-> NoIter]

\* vertices() has not been called on a mesh.
VertIdle ==
    /\ vArrays = NoArrays
    /\ vIters = NoIters
    /\ vOut = <<>>

LateIdle ==
    /\ ChanIdle
    /\ HintIdle
    /\ EntryIdle
    /\ FileIdle
    /\ VertIdle

RestIdle ==
    /\ FaceIdle
    /\ IoIdle
    /\ LogIdle
    /\ MetaIdle
    /\ LateIdle

ExtIdle ==
    /\ CompIdle
    /\ NodeIdle
    /\ RestIdle

\* ------------------------------------------------------------ arena root

Handles == 1 .. MaxArenas

\* The failure codes of the import engine, opaque to this layer.
ErrorCodes == {"E_OPEN", "E_PARSE"}

NoResult == [called |-> FALSE, ok |-> FALSE, scene |-> 0, err |-> "-"]

\* Import succeeded: the scene handle wraps the arena the engine produced.
Ok(h) == [called |-> TRUE, ok |-> TRUE, scene |-> h, err |-> "-"]

\* Mutant: the engine's code is replaced by a fixed one.
Err_fixed(code) == [called |-> TRUE, ok |-> FALSE, scene |-> 0, err |-> "E_OPEN"]

\* Import failed: the engine's code is handed to the caller as it is.
Err(code) == [called |-> TRUE, ok |-> FALSE, scene |-> 0, err |-> code]

ArenaIdle ==
    /\ arena = [h \in Handles |-> "Unopened"]
    /\ result = [h \in Handles |-> NoResult]
    /\ engineErr = [h \in Handles |-> "-"]
    /\ releases = [h \in Handles |-> 0]
    /\ views = [h \in Handles |-> 0]
    /\ rawHeld = [h \in Handles |-> FALSE]
    /\ freeIter = [h \in Handles |-> FALSE]
    /\ staleUse = FALSE
    /\ closing = [h \in Handles |-> FALSE]

\* import(request) succeeds: Unopened -> Opened.
ImportOk(h) ==
    /\ arena[h] = "Unopened"
    /\ arena' = [arena EXCEPT ![h] = "Opened"]
    /\ result' = [result EXCEPT ![h] = Ok(h)]
    /\ engineErr' = [engineErr EXCEPT ![h] = "-"]
    /\ UNCHANGED <<releases, views, rawHeld, freeIter, staleUse, closing>>
    /\ UNCHANGED <<viewVars, matVars, extVars>>

\* import(request) fails: no arena, the engine's code is surfaced.
ImportErr(h) ==
    /\ arena[h] = "Unopened"
    /\ \E code \in ErrorCodes :
        /\ engineErr' = [engineErr EXCEPT ![h] = code]
        /\ result' = [result EXCEPT ![h] = Err(code)]
    /\ UNCHANGED <<arena, releases, views, rawHeld, freeIter, staleUse, closing>>
    /\ UNCHANGED <<viewVars, matVars, extVars>>

\* A view is borrowed from the arena root; the borrow keeps the root alive.
Borrow(h) ==
    /\ arena[h] = "Opened"
    /\ ~closing[h]
    /\ views[h] < MaxViews
    /\ views' = [views EXCEPT ![h] = @ + 1]
    /\ UNCHANGED <<arena, result, engineErr, releases, rawHeld, freeIter, staleUse, closing>>
    /\ UNCHANGED <<viewVars, matVars, extVars>>

\* A borrowed view is read.
ViewDeref(h) ==
    /\ views[h] > 0
    /\ staleUse' = (staleUse \/ arena[h] = "Released")
    /\ UNCHANGED <<arena, result, engineErr, releases, views, rawHeld, freeIter, closing>>
    /\ UNCHANGED <<viewVars, matVars, extVars>>

DropView(h) ==
    /\ views[h] > 0
    /\ views' = [views EXCEPT ![h] = @ - 1]
    /\ UNCHANGED <<arena, result, engineErr, releases, rawHeld, freeIter, staleUse, closing>>
    /\ UNCHANGED <<viewVars, matVars, extVars>>

\* The root can go only when nothing borrows from it any more.
CanRelease(h) == arena[h] = "Opened" /\ views[h] = 0

\* The owner of the root lets it go out of scope: nothing new is borrowed
\* from it, and it is dropped once the borrows taken from it have ended.
EndScope(h) ==
    /\ arena[h] = "Opened"
    /\ ~closing[h]
    /\ closing' = [closing EXCEPT ![h] = TRUE]
    /\ UNCHANGED <<arena, result, engineErr, releases, views, rawHeld, freeIter, staleUse>>
    /\ UNCHANGED <<viewVars, matVars, extVars>>

\* Mutant: the arena is kept open although the release call was issued.
Released_stays_open(h) == [arena EXCEPT ![h] = "Opened"]

Released(h) == [arena EXCEPT ![h] = "Released"]

\* The root is dropped, explicitly or at the end of its scope:
\* Opened -> Released, with the one release call to the engine.
Release(h) ==
    /\ CanRelease(h)
    /\ arena' = Released(h)
    /\ releases' = [releases EXCEPT ![h] = @ + 1]
    /\ UNCHANGED <<result, engineErr, views, rawHeld, freeIter, staleUse, closing>>
    /\ UNCHANGED <<viewVars, matVars, extVars>>

\* to_raw(): a safe call on a view that hands out the NonNull it wraps.
ToRaw(h) ==
    /\ views[h] > 0
    /\ rawHeld' = [rawHeld EXCEPT ![h] = TRUE]
    /\ UNCHANGED <<arena, result, engineErr, releases, views, freeIter, staleUse, closing>>
    /\ UNCHANGED <<viewVars, matVars, extVars>>

\* The iterators' public constructor new(ptr, len): a safe call whose result
\* has a lifetime 'a that no argument bounds, so nothing ties it to the root.
PublicIterNew(h) ==
    /\ rawHeld[h]
    /\ freeIter' = [freeIter EXCEPT ![h] = TRUE]
    /\ UNCHANGED <<arena, result, engineErr, releases, views, rawHeld, staleUse, closing>>
    /\ UNCHANGED <<viewVars, matVars, extVars>>

\* next() on such an iterator reads the arena's memory.
FreeIterNext(h) ==
    /\ freeIter[h]
    /\ staleUse' = (staleUse \/ arena[h] = "Released")
    /\ UNCHANGED <<arena, result, engineErr, releases, views, rawHeld, freeIter, closing>>
    /\ UNCHANGED <<viewVars, matVars, extVars>>

DropFreeIter(h) ==
    /\ freeIter[h]
    /\ freeIter' = [freeIter EXCEPT ![h] = FALSE]
    /\ UNCHANGED <<arena, result, engineErr, releases, views, rawHeld, staleUse, closing>>
    /\ UNCHANGED <<viewVars, matVars, extVars>>

ArenaInit ==
    /\ ArenaIdle
    /\ MatIdle
    /\ ViewIdle
    /\ ExtIdle

ArenaNext ==
    \E h \in Handles :
        \/ ImportOk(h)
        \/ ImportErr(h)
        \/ Borrow(h)
        \/ ViewDeref(h)
        \/ DropView(h)
        \/ EndScope(h)
        \/ Release(h)
        \/ ToRaw(h)
        \/ PublicIterNew(h)
        \/ FreeIterNext(h)
        \/ DropFreeIter(h)

ArenaSpec == ArenaInit /\ [][ArenaNext]_vars

\* Every borrowed view is dropped at the end of its scope, and so is the
\* arena root once nothing borrows from it.
ArenaFairSpec ==
    /\ ArenaSpec
    /\ \A h \in Handles :
            WF_vars(EndScope(h)) /\ WF_vars(DropView(h)) /\ WF_vars(Release(h))

\* ------------------------------------------------------ material values

\* A u32 is the set of its one-bits, bit 0 the least significant.
BitsOf(n) == {i \in 0 .. 30 : (n \div 2^i) % 2 = 1}

\* The small integers, converted once.
SmallU32 == [n \in 0 .. MaxPayload |-> BitsOf(n)]

U32(n) == IF n \in DOMAIN SmallU32 THEN SmallU32[n] ELSE BitsOf(n)

\* The integers a property can hold: small ones, and ones with high bits.
Payloads ==
    {U32(n) : n \in 0 .. MaxPayload} \cup {0 .. 30, {31}, {0, 31}, 0 .. 31}

Components ==
    {"Diffuse", "Specular", "Ambient", "Emissive", "Opacity", "Displacement",
     "Lightmap", "Reflection", "Unknown"}

\* `comp as u32`: the aiTextureType discriminant of a component.
AsU32(comp) ==
    CASE comp = "Diffuse" -> 1
      [] comp = "Specular" -> 2
      [] comp = "Ambient" -> 3
      [] comp = "Emissive" -> 4
      [] comp = "Opacity" -> 8
      [] comp = "Displacement" -> 9
      [] comp = "Lightmap" -> 10
      [] comp = "Reflection" -> 11
      [] comp = "Unknown" -> 12

PlainKinds ==
    {"Name", "Wireframe", "TwoSided", "ShadingModel", "BlendFunc", "Opacity",
     "Shininess", "ShininessStrength", "RefractionIndex"}

SlotKinds ==
    {"Texture", "TextureBlend", "TextureOp", "Mapping", "UVWSource",
     "MappingModeU", "MappingModeV", "TextureMapAxis", "Flags"}

MaterialKey ==
    [kind : PlainKinds, comp : {"-"}, index : {0}]
    \cup [kind : {"Color"}, comp : Components, index : {0}]
    \cup [kind : SlotKinds, comp : Components, index : 0 .. MaxIndex]

NoTriple == [some |-> FALSE, name |-> "-", semantic |-> 0, index |-> 0]

Triple(name, semantic, index) ==
    [some |-> TRUE, name |-> name, semantic |-> semantic, index |-> index]

MaterialKey_triple(key) ==
    CASE key.kind = "Name" -> Triple("?mat.name", 0, 0)
      [] key.kind = "Color" /\ key.comp = "Diffuse" -> Triple("$clr.diffuse", 0, 0)
      [] key.kind = "Color" /\ key.comp = "Ambient" -> Triple("$clr.ambient", 0, 0)
      [] key.kind = "Color" /\ key.comp = "Specular" -> Triple("$clr.specular", 0, 0)
      [] key.kind = "Color" /\ key.comp = "Emissive" -> Triple("$clr.emissive", 0, 0)
      [] key.kind = "Color" /\ key.comp = "Opacity" ->
            Triple("$clr.transparent", 0, 0)
      [] key.kind = "Color" /\ key.comp = "Reflection" ->
            Triple("$clr.reflective", 0, 0)
      [] key.kind = "Color"
            /\ key.comp \in {"Displacement", "Lightmap", "Unknown"} -> NoTriple
      [] key.kind = "Wireframe" -> Triple("$mat.wireframe", 0, 0)
      [] key.kind = "TwoSided" -> Triple("$mat.twosided", 0, 0)
      [] key.kind = "ShadingModel" -> Triple("$mat.shadingm", 0, 0)
      [] key.kind = "BlendFunc" -> Triple("$mat.blend", 0, 0)
      [] key.kind = "Opacity" -> Triple("$mat.opacity", 0, 0)
      [] key.kind = "Shininess" -> Triple("$mat.shininess", 0, 0)
      [] key.kind = "ShininessStrength" -> Triple("$mat.shinpercent", 0, 0)
      [] key.kind = "RefractionIndex" -> Triple("$mat.refracti", 0, 0)
      [] key.kind = "Texture" ->
            Triple("_AI_MATKEY_TEXTURE_BASE", AsU32(key.comp), key.index)
      [] key.kind = "TextureBlend" ->
            Triple("_AI_MATKEY_TEXBLEND_BASE", AsU32(key.comp), key.index)
      [] key.kind = "TextureOp" ->
            Triple("_AI_MATKEY_TEXOP_BASE", AsU32(key.comp), key.index)
      [] key.kind = "Mapping" ->
            Triple("_AI_MATKEY_MAPPING_BASE", AsU32(key.comp), key.index)
      [] key.kind = "UVWSource" ->
            Triple("_AI_MATKEY_UVWSRC_BASE", AsU32(key.comp), key.index)
      [] key.kind = "MappingModeU" ->
            Triple("_AI_MATKEY_MAPPINGMODE_U_BASE", AsU32(key.comp), key.index)
      [] key.kind = "MappingModeV" ->
            Triple("_AI_MATKEY_MAPPINGMODE_V_BASE", AsU32(key.comp), key.index)
      [] key.kind = "TextureMapAxis" ->
            Triple("_AI_MATKEY_TEXMAP_AXIS_BASE", AsU32(key.comp), key.index)
      [] key.kind = "Flags" ->
            Triple("_AI_MATKEY_TEXFLAGS_BASE", AsU32(key.comp), key.index)

\* Mutant: the UVW source index is declared as a boolean.
MaterialKey_type__uvw_as_bool(key) ==
    CASE key.kind \in {"Name", "Texture"} -> "String"
      [] key.kind = "Color" -> "Color3D"
      [] key.kind \in {"Wireframe", "TwoSided", "UVWSource"} -> "Bool"
      [] key.kind = "ShadingModel" -> "ShadingModel"
      [] key.kind = "BlendFunc" -> "MaterialBlendOp"
      [] key.kind \in {"Opacity", "Shininess", "ShininessStrength",
                       "RefractionIndex", "TextureBlend"} -> "Float"
      [] key.kind = "TextureOp" -> "BlendOp"
      [] key.kind = "Mapping" -> "Mapping"
      [] key.kind \in {"MappingModeU", "MappingModeV"} -> "WrappingMode"
      [] key.kind = "TextureMapAxis" -> "Vector3D"
      [] key.kind = "Flags" -> "TextureFlags"

MaterialKey_type_(key) ==
    CASE key.kind = "Name" -> "String"
      [] key.kind = "Color" -> "Color3D"
      [] key.kind = "Wireframe" -> "Bool"
      [] key.kind = "TwoSided" -> "Bool"
      [] key.kind = "ShadingModel" -> "ShadingModel"
      [] key.kind = "BlendFunc" -> "MaterialBlendOp"
      [] key.kind = "Opacity" -> "Float"
      [] key.kind = "Shininess" -> "Float"
      [] key.kind = "ShininessStrength" -> "Float"
      [] key.kind = "RefractionIndex" -> "Float"
      [] key.kind = "Texture" -> "String"
      [] key.kind = "TextureBlend" -> "Float"
      [] key.kind = "TextureOp" -> "BlendOp"
      [] key.kind = "Mapping" -> "Mapping"
      [] key.kind = "UVWSource" -> "Int"
      [] key.kind = "MappingModeU" -> "WrappingMode"
      [] key.kind = "MappingModeV" -> "WrappingMode"
      [] key.kind = "TextureMapAxis" -> "Vector3D"
      [] key.kind = "Flags" -> "TextureFlags"

\* Result<T, ()> of the TryFrom<u32> conversions, Option<T> of from_bits.
ConvErr == [ok |-> FALSE, variant |-> "-"]
ConvOk(variant) == [ok |-> TRUE, variant |-> variant]

ShadingModel_try_from(other) ==
    CASE other = U32(1) -> ConvOk("Flat")
      [] other = U32(2) -> ConvOk("Gouraud")
      [] other = U32(3) -> ConvOk("Phong")
      [] other = U32(4) -> ConvOk("Blinn")
      [] other = U32(5) -> ConvOk("Toon")
      [] other = U32(6) -> ConvOk("OrenNayar")
      [] other = U32(7) -> ConvOk("Minnaert")
      [] other = U32(8) -> ConvOk("CookTorrance")
      [] other = U32(9) -> ConvOk("NoShading")
      [] other = U32(10) -> ConvOk("Fresnel")
      [] OTHER -> ConvErr

BlendOp_try_from(other) ==
    CASE other = U32(0) -> ConvOk("Multiply")
      [] other = U32(1) -> ConvOk("Add")
      [] other = U32(2) -> ConvOk("Subtract")
      [] other = U32(3) -> ConvOk("Divide")
      [] other = U32(4) -> ConvOk("SmoothAdd")
      [] other = U32(5) -> ConvOk("SignedAdd")
      [] OTHER -> ConvErr

MaterialBlendOp_try_from(other) ==
    CASE other = U32(1) -> ConvOk("Additive")
      [] other = U32(0) -> ConvOk("Default")
      [] OTHER -> ConvErr

Mapping_try_from(other) ==
    CASE other = U32(0) -> ConvOk("UV")
      [] other = U32(1) -> ConvOk("Sphere")
      [] other = U32(2) -> ConvOk("Cylinder")
      [] other = U32(3) -> ConvOk("Box")
      [] other = U32(4) -> ConvOk("Plane")
      [] OTHER -> ConvErr

\* Mutant: an unrecognised wrap mode falls back to Repeat.
WrappingMode_try_from_defaulting(other) ==
    CASE other = U32(1) -> ConvOk("Clamp")
      [] other = U32(3) -> ConvOk("Decal")
      [] other = U32(2) -> ConvOk("MirrorRepeat")
      [] OTHER -> ConvOk("Repeat")

WrappingMode_try_from(other) ==
    CASE other = U32(0) -> ConvOk("Repeat")
      [] other = U32(1) -> ConvOk("Clamp")
      [] other = U32(3) -> ConvOk("Decal")
      [] other = U32(2) -> ConvOk("MirrorRepeat")
      [] OTHER -> ConvErr

\* The bitflags constants: INVERT, FORCE_ALPHA, IGNORE_ALPHA, and
\* FORCE_32BIT, whose value is the engine's INT_MAX filler.
TextureFlags_INVERT == U32(1)
TextureFlags_FORCE_ALPHA == U32(2)
TextureFlags_IGNORE_ALPHA == U32(4)
TextureFlags_FORCE_32BIT == 0 .. 30

TextureFlags_all ==
    TextureFlags_INVERT \cup TextureFlags_FORCE_ALPHA
    \cup TextureFlags_IGNORE_ALPHA \cup TextureFlags_FORCE_32BIT

\* from_bits: the flags, unless a bit outside every constant is set.
TextureFlags_from_bits(bits) ==
    IF bits \ TextureFlags_all = {} THEN ConvOk(bits) ELSE ConvErr

\* --------------------------------------------------- material property bag

\* A property of the bag: its key triple, whether the engine's typed getter
\* can read it as the type asked for, and the payload it then returns.
Properties(t) ==
    [name : {t.name}, semantic : {t.semantic}, index : {t.index},
     readable : BOOLEAN, payload : Payloads]

Failure == [ok |-> FALSE, out |-> {}]
Success(out) == [ok |-> TRUE, out |-> out]

\* The engine's lookup by (name, semantic, index) and typed read.
aiGetMaterialProperty(bag, t) ==
    LET hits == {p \in bag : p.name = t.name /\ p.semantic = t.semantic
                              /\ p.index = t.index}
    IN IF hits = {} THEN Failure
       ELSE LET p == CHOOSE q \in hits : TRUE
            IN IF p.readable THEN Success(p.payload) ELSE Failure

aiGetMaterialColor(bag, t) == aiGetMaterialProperty(bag, t)
aiGetMaterialString(bag, t) == aiGetMaterialProperty(bag, t)
aiGetMaterialFloatArray(bag, t) == aiGetMaterialProperty(bag, t)
aiGetMaterialIntegerArray(bag, t) == aiGetMaterialProperty(bag, t)

\* ------------------------------------------------------------ get_value

NoneValue == [done |-> TRUE, tag |-> "None", variant |-> "-", val |-> {}]
Panicked == [done |-> TRUE, tag |-> "Panic", variant |-> "-", val |-> {}]
SomeValue(variant, val) ==
    [done |-> TRUE, tag |-> "Some", variant |-> variant, val |-> val]

\* `MaterialValue::X(conv.ok()?)`: absent when the conversion failed.
Converted(variant, conv) ==
    IF conv.ok THEN SomeValue(variant, conv.variant) ELSE NoneValue

IntBacked ==
    {"Int", "Bool", "ShadingModel", "MaterialBlendOp", "BlendOp", "Mapping",
     "WrappingMode", "TextureFlags"}

\* The int-backed arm's inner match on the value type.
IntBackedValue(value_type, out) ==
    CASE value_type = "Int" -> SomeValue("Int", out)
      [] value_type = "Bool" -> SomeValue("Bool", out # {})
      [] value_type = "ShadingModel" ->
            Converted("ShadingModel", ShadingModel_try_from(out))
      [] value_type = "MaterialBlendOp" ->
            Converted("MaterialBlendOp", MaterialBlendOp_try_from(out))
      [] value_type = "BlendOp" -> Converted("BlendOp", BlendOp_try_from(out))
      [] value_type = "Mapping" -> Converted("Mapping", Mapping_try_from(out))
      [] value_type = "WrappingMode" ->
            Converted("WrappingMode", WrappingMode_try_from(out))
      [] value_type = "TextureFlags" ->
            Converted("TextureFlags", TextureFlags_from_bits(out))

Material_get_value(bag, key) ==
    LET t == MaterialKey_triple(key)
        value_type == MaterialKey_type_(key)
    IN IF ~t.some THEN NoneValue
       ELSE CASE value_type = "Color3D" ->
                    LET r == aiGetMaterialColor(bag, t)
                    IN IF r.ok THEN SomeValue("Color3D", r.out) ELSE NoneValue
              [] value_type = "String" ->
                    LET r == aiGetMaterialString(bag, t)
                    IN IF r.ok THEN SomeValue("String", r.out) ELSE NoneValue
              [] value_type = "Float" ->
                    LET r == aiGetMaterialFloatArray(bag, t)
                    IN IF r.ok THEN SomeValue("Float", r.out) ELSE NoneValue
              [] value_type \in IntBacked ->
                    LET r == aiGetMaterialIntegerArray(bag, t)
                    IN IF r.ok THEN IntBackedValue(value_type, r.out)
                       ELSE NoneValue
              [] value_type = "Vector3D" -> Panicked

\* ------------------------------------------------- the material machine

\* The triple the bag is probed with for a key; a key without one (a colour
\* of a component that has none) is probed with the diffuse colour's.
ProbeTriple(key) ==
    IF MaterialKey_triple(key).some THEN MaterialKey_triple(key)
    ELSE Triple("$clr.diffuse", 0, 0)

\* The bags a key is tried on: the empty one, one holding a property under
\* the probed triple, one holding a property under the same name and
\* component but the next index.
BagsFor(key) ==
    LET t == ProbeTriple(key)
    IN {{}} \cup {{p} : p \in Properties(t)}
       \cup {{p} : p \in Properties([t EXCEPT !.index = t.index + 1])}

MatInit ==
    /\ mkey \in MaterialKey
    /\ mbag \in BagsFor(mkey)
    /\ mres = NotCalled
    /\ ArenaIdle
    /\ ViewIdle
    /\ ExtIdle

GetValue ==
    /\ ~mres.done
    /\ mres' = Material_get_value(mbag, mkey)
    /\ UNCHANGED <<mbag, mkey>>
    /\ UNCHANGED <<viewVars, arenaVars, extVars>>

\* The value is dropped; the material can be asked again.
DropValue ==
    /\ mres.done
    /\ mres.tag # "Panic"
    /\ mres' = NotCalled
    /\ UNCHANGED <<mbag, mkey>>
    /\ UNCHANGED <<viewVars, arenaVars, extVars>>

MatNext == GetValue \/ DropValue

MaterialSpec == MatInit /\ [][MatNext]_vars

\* ------------------------------------------------------ material component

\* f32 values by their bits: 1.0 and 0.5.
F32_ONE == 23 .. 29
F32_HALF == 24 .. 29

\* Color3D::default(), the zero colour.
Color3D_default == {}

BlendOp_default == "Replace"

ColorKey(type_) == [kind |-> "Color", comp |-> type_, index |-> 0]
SlotKey(kind, type_, index) == [kind |-> kind, comp |-> type_, index |-> index]

\* Option<T> out of Option<MaterialValue>: `.and_then(|val| val.try_into().ok())`.
AndThenTryInto(value, variant) ==
    IF value.tag = "Some" /\ value.variant = variant
    THEN [some |-> TRUE, v |-> value.val]
    ELSE [some |-> FALSE, v |-> {}]

\* The variant name of an Option of an enumeration, "None" when absent.
OptionName(opt) == IF opt.some THEN opt.v ELSE "None"

\* Mutant: a component without colour is absent whatever its textures.
ColorOrDefault_strict(color, count) == [some |-> color.some, v |-> color.v]

\* `if count == 0 { color? } else { color.unwrap_or_default() }`
ColorOrDefault(color, count) ==
    IF count = 0 THEN [some |-> color.some, v |-> color.v]
    ELSE [some |-> TRUE, v |-> IF color.some THEN color.v ELSE Color3D_default]

Material_component(bag, type_, count) ==
    LET color == AndThenTryInto(Material_get_value(bag, ColorKey(type_)),
                                "Color3D")
        base == ColorOrDefault(color, count)
    IN IF base.some
       THEN [done |-> TRUE, some |-> TRUE, color |-> base.v, len |-> count]
       ELSE [done |-> TRUE, some |-> FALSE, color |-> {}, len |-> 0]

\* What aiGetMaterialTexture answers for a slot with every property set:
\* UV mapping, channel 1, blend factor 0.5, operation Add, the INVERT flag.
FullAnswer ==
    [ok |-> TRUE, mapping |-> U32(0), uvindex |-> Out(U32(1)),
     blend |-> Out(F32_HALF), op |-> Out(U32(1)), flags |-> Out(U32(1))]

\* What aiGetMaterialTexture can answer for a slot: failure, or success with
\* the mapping written and each other out-parameter written or left alone.
\* The answers differ from the full one in the mapping, in the blend
\* operation and factor, or in the channel and flags.
TextureAnswers ==
    {[ok |-> FALSE, mapping |-> {}, uvindex |-> Unwritten,
      blend |-> Unwritten, op |-> Unwritten, flags |-> Unwritten]}
    \cup {[FullAnswer EXCEPT !.mapping = m] : m \in {U32(0), U32(1), U32(5)}}
    \cup {[FullAnswer EXCEPT !.op = o, !.blend = b] :
            o \in {Unwritten, Out(U32(1)), Out(U32(6))},
            b \in {Unwritten, Out(F32_HALF)}}
    \cup {[FullAnswer EXCEPT !.uvindex = u, !.flags = f] :
            u \in {Unwritten, Out(U32(1)), Out({31})},
            f \in {Unwritten, Out(U32(1)), Out({0, 31})}}

\* The words an uninitialised local can hold.
JunkWords == {U32(0), {31}}

\* The junk each unwritten MaybeUninit::uninit() local of the closure holds.
JunkFor(ans) ==
    [blend : IF ans.blend.set THEN {{}} ELSE JunkWords,
     op : IF ans.op.set THEN {{}} ELSE JunkWords,
     flags : IF ans.flags.set THEN {{}} ELSE JunkWords]

\* `x.assume_init()` of an out-parameter and the junk it held before the call.
assume_init(out, junk) == IF out.set THEN out.v ELSE junk

\* `(uvindex as i32).try_into().ok().unwrap_or_default()`
Channel(uvindex) == IF 31 \in uvindex THEN {} ELSE uvindex

\* The closure of component(): the TextureDefinition of slot index, or a
\* panic.  uvindex is MaybeUninit::zeroed(), the other locals are uninit().
TextureClosure(bag, type_, index, ans, junk) ==
    LET mapping == Mapping_try_from(ans.mapping)
        axis == IF ~mapping.ok \/ mapping.variant = "UV" THEN NoneValue
                ELSE Material_get_value(bag, SlotKey("TextureMapAxis", type_, index))
        wrap_u == AndThenTryInto(
                    Material_get_value(bag, SlotKey("MappingModeU", type_, index)),
                    "WrappingMode")
        wrap_v == AndThenTryInto(
                    Material_get_value(bag, SlotKey("MappingModeV", type_, index)),
                    "WrappingMode")
        op == BlendOp_try_from(assume_init(ans.op, junk.op))
        blend_op == IF op.ok THEN op.variant ELSE BlendOp_default
        flags == TextureFlags_from_bits(assume_init(ans.flags, junk.flags))
    IN IF ~ans.ok \/ axis.tag = "Panic"
       THEN [panic |-> TRUE, def |-> NoDefinition]
       ELSE [panic |-> FALSE,
             def |-> [some |-> TRUE,
                      strength |-> IF blend_op = "Replace" THEN F32_ONE
                                   ELSE assume_init(ans.blend, junk.blend),
                      blend_op |-> blend_op,
                      mapping |-> IF mapping.ok THEN mapping.variant ELSE "None",
                      axis |-> "None",
                      channel |-> Channel(assume_init(ans.uvindex, {})),
                      wrap_u |-> OptionName(wrap_u),
                      wrap_v |-> OptionName(wrap_v),
                      flags |-> IF flags.ok THEN flags.variant ELSE {}]]

\* The colour property of a component, if it has a colour key: none, a
\* readable or unreadable one, or one under another index.
ColorBags(type_) ==
    LET t == ProbeTriple(ColorKey(type_))
    IN {{}} \cup {{[name |-> t.name, semantic |-> t.semantic, index |-> 0,
                    readable |-> r, payload |-> w]} :
                  r \in BOOLEAN, w \in {{}, U32(5)}}
       \cup {{[name |-> t.name, semantic |-> t.semantic, index |-> 1,
                readable |-> TRUE, payload |-> U32(5)]}}

\* The wrap mode properties of slot 0: none, a known mode for u, an unknown
\* mode for v.
WrapBags(type_) ==
    LET u == MaterialKey_triple(SlotKey("MappingModeU", type_, 0))
        v == MaterialKey_triple(SlotKey("MappingModeV", type_, 0))
    IN {{},
        {[name |-> u.name, semantic |-> u.semantic, index |-> u.index,
          readable |-> TRUE, payload |-> U32(1)]},
        {[name |-> v.name, semantic |-> v.semantic, index |-> v.index,
          readable |-> TRUE, payload |-> U32(7)]}}

CompInit ==
    /\ mtype \in Components
    /\ mcount \in 0 .. MaxTextures
    /\ mbag \in {c \cup w : c \in ColorBags(mtype), w \in WrapBags(mtype)}
    /\ mkey = [kind |-> "Name", comp |-> "-", index |-> 0]
    /\ mres = NotCalled
    /\ mcomp = NoComponent
    /\ titer = [next |-> 0, end |-> 0]
    /\ tslot = NoSlot
    /\ tdef = NoDefinition
    /\ tseen = <<>>
    /\ tpanic = FALSE
    /\ ViewIdle
    /\ ArenaIdle
    /\ NodeIdle
    /\ RestIdle

\* component(type_): the base colour and a fresh, lazy texture iterator.
Component ==
    /\ ~tpanic
    /\ mcomp' = Material_component(mbag, mtype, mcount)
    /\ titer' = [next |-> 0,
                 end |-> IF mcomp'.some THEN mcount ELSE 0]
    /\ tslot' = NoSlot
    /\ tdef' = NoDefinition
    /\ tseen' = <<>>
    /\ UNCHANGED <<mtype, mcount, tpanic>>
    /\ UNCHANGED compFrame

\* textures.next() with a slot left: the closure runs on the next index.
TexturesNext ==
    /\ mcomp.done /\ mcomp.some
    /\ ~tpanic
    /\ titer.next < titer.end
    /\ \E ans \in TextureAnswers :
        \E junk \in JunkFor(ans) :
            LET r == TextureClosure(mbag, mtype, titer.next, ans, junk) IN
                /\ tslot' = [asked |-> TRUE, index |-> titer.next,
                             ok |-> ans.ok, mapping |-> ans.mapping,
                             uvindex |-> ans.uvindex, blend |-> ans.blend,
                             op |-> ans.op, flags |-> ans.flags]
                /\ tpanic' = r.panic
                /\ tdef' = r.def
                /\ tseen' = IF r.panic THEN tseen
                            ELSE Append(tseen, titer.next)
    /\ titer' = [titer EXCEPT !.next = @ + 1]
    /\ UNCHANGED <<mtype, mcount, mcomp>>
    /\ UNCHANGED compFrame

CompNext == Component \/ TexturesNext

ComponentSpec == CompInit /\ [][CompNext]_vars

\* -------------------------------------------------- node mesh indices

\* A slice &[T] over len elements.
Slice(items) == [done |-> TRUE, tag |-> "Slice", items |-> items]

\* The process stopped on a failed precondition check.
Aborted == [done |-> TRUE, tag |-> "Abort", items |-> <<>>]

\* slice::from_raw_parts(data, len).  A null data pointer is undefined
\* behaviour whatever len is: a build that checks the precondition aborts,
\* one that does not goes on with a slice at address 0.
from_raw_parts(data, len, words) ==
    IF data = 0 THEN {Aborted, Slice(SubSeq(words, 1, len))}
    ELSE {Slice(SubSeq(words, 1, len))}

\* Node::meshes: the outcomes of the call.
Node_meshes == from_raw_parts(mMeshes, mNumMeshes, meshIdx)

Node_num_meshes == mNumMeshes

\* The mesh of the scene at index id: present below the mesh count.
Scene_mesh(id) ==
    IF InBounds(id, sceneMeshes)
    THEN [done |-> TRUE, id |-> id, some |-> TRUE, at |-> {id}]
    ELSE [done |-> TRUE, id |-> id, some |-> FALSE, at |-> {}]

\* The nodes the engine hands over: no meshes and a null array, or an array
\* of mNumMeshes indices of any value.
NodeInit ==
    /\ mNumMeshes \in 0 .. MaxLen
    /\ mMeshes \in IF mNumMeshes = 0 THEN {0, ArrBase} ELSE {ArrBase}
    /\ meshIdx \in [1 .. mNumMeshes -> 0 .. MaxLen + 1]
    /\ sceneMeshes \in 0 .. MaxLen
    /\ nres = NoSlice
    /\ sres = NoMesh
    /\ ViewIdle
    /\ ArenaIdle
    /\ MatIdle
    /\ CompIdle
    /\ RestIdle

NodeMeshes ==
    /\ nres.tag # "Abort"
    /\ \E outcome \in Node_meshes : nres' = outcome
    /\ sres' = NoMesh
    /\ UNCHANGED <<mMeshes, mNumMeshes, meshIdx, sceneMeshes>>
    /\ UNCHANGED nodeFrame

\* An index read from the node's list is resolved against the scene.
ResolveMesh ==
    /\ nres.tag = "Slice"
    /\ \E k \in 1 .. Len(nres.items) : sres' = Scene_mesh(nres.items[k])
    /\ UNCHANGED <<mMeshes, mNumMeshes, meshIdx, sceneMeshes, nres>>
    /\ UNCHANGED nodeFrame

NodeNext == NodeMeshes \/ ResolveMesh

NodeSpec == NodeInit /\ [][NodeNext]_vars

\* ------------------------------------------------------------------ faces

\* Face::indices: an empty slice for a null index array, else the
\* mNumIndices words at the array.
Face_indices ==
    IF mIndices = 0 THEN {Slice(<<>>)}
    ELSE from_raw_parts(mIndices, mNumIndices, faceIdx)

Kind(k) == [done |-> TRUE, tag |-> "Kind", kind |-> k]

\* unreachable!(): the call panics and returns nothing.
Unreachable == [done |-> TRUE, tag |-> "Panic", kind |-> "-"]

\* The match on the length with every arm falling to Polygon.
PrimitiveTypeOf_all_polygons(len) ==
    IF len = 0 THEN Unreachable ELSE Kind("Polygon")

\* The match of Face::primitive_type on the length of the index slice.
PrimitiveTypeOf(len) ==
    CASE len = 0 -> Unreachable
      [] len = 1 -> Kind("Point")
      [] len = 2 -> Kind("Line")
      [] len = 3 -> Kind("Triangle")
      [] OTHER -> Kind("Polygon")

\* Face::primitive_type: the outcomes of the call.
Face_primitive_type ==
    {PrimitiveTypeOf(Len(sl.items)) : sl \in Face_indices}

\* The largest index count of a face: polygons with more than four corners
\* are among the faces.
MaxFaceLen == MaxLen + 2

FaceInit ==
    /\ mNumIndices \in 0 .. MaxFaceLen
    /\ mIndices \in {0, ArrBase}
    /\ faceIdx \in IF mIndices = 0 THEN {<<>>}
                   ELSE [1 .. mNumIndices -> 0 .. 1]
    /\ fres = NoSlice
    /\ kres = NoKind
    /\ ViewIdle
    /\ ArenaIdle
    /\ MatIdle
    /\ CompIdle
    /\ NodeIdle
    /\ IoIdle
    /\ LogIdle
    /\ MetaIdle
    /\ LateIdle

FaceIndices ==
    /\ kres.tag # "Panic"
    /\ \E outcome \in Face_indices : fres' = outcome
    /\ UNCHANGED <<mIndices, mNumIndices, faceIdx, kres>>
    /\ UNCHANGED faceFrame

FacePrimitiveType ==
    /\ kres.tag # "Panic"
    /\ \E outcome \in Face_primitive_type : kres' = outcome
    /\ UNCHANGED <<mIndices, mNumIndices, faceIdx, fres>>
    /\ UNCHANGED faceFrame

FaceNext == FaceIndices \/ FacePrimitiveType

FaceSpec == FaceInit /\ [][FaceNext]_vars

\* ------------------------------------------------------------- I/O bridge

\* What File::read / File::write answer: Err(_), or Ok(n) with n bytes
\* transferred out of the len bytes handed over.
IoErr == [ok |-> FALSE, n |-> 0]
IoOk(n) == [ok |-> TRUE, n |-> n]
Answers(len) == {IoErr} \cup {IoOk(n) : n \in 0 .. len}

\* The checks at the head of io_read / io_write.
io_entry(size, count) ==
    CASE size = 0 -> "Panic"
      [] count = 0 -> "Panic"
      [] size = 1 -> "Memcpy"
      [] OTHER -> "Stride"

\* A stride loop that counts every transfer the backend did not fail.
FullTransfer_any_ok(ans, size) == ans.ok

\* The stride loop goes on after a backend call: it did not fail and moved
\* exactly size bytes.
FullTransfer(ans, size) == ans.ok /\ ans.n = size

\* Err(_) => std::u64::MAX of the size 1 branch.
U64_MAX == [err |-> TRUE, v |-> 0]
Ret(v) == [err |-> FALSE, v |-> v]

\* The head of the callback, and the single backend call when size is 1.
IoEnter(op) ==
    /\ ioOp = op
    /\ ioPhase = "Called"
    /\ LET way == io_entry(ioSize, ioCount) IN
        CASE way = "Panic" ->
                /\ ioPhase' = "Panicked"
                /\ UNCHANGED <<ioLog, ioRet>>
          [] way = "Memcpy" ->
                \E ans \in Answers(ioCount) :
                    /\ ioLog' =
                        <<[off |-> 0, len |-> ioCount, ans |-> ans]>>
                    /\ ioRet' = IF ans.ok THEN Ret(ans.n) ELSE U64_MAX
                    /\ ioPhase' = "Returned"
          [] OTHER ->
                /\ ioPhase' = "Loop"
                /\ UNCHANGED <<ioLog, ioRet>>
    /\ UNCHANGED <<ioOp, ioSize, ioCount, ioTotal>>
    /\ UNCHANGED ioFrame

\* One pass of the stride loop: split size bytes off the rest of the
\* buffer, hand them to the backend, then break or count the element.
IoStride(op) ==
    /\ ioOp = op
    /\ ioPhase = "Loop"
    /\ \E ans \in Answers(ioSize) :
        /\ ioLog' = Append(ioLog, [off |-> Len(ioLog) * ioSize,
                                   len |-> ioSize, ans |-> ans])
        /\ IF FullTransfer(ans, ioSize)
           THEN /\ ioTotal' = ioTotal + 1
                /\ IF Len(ioLog) + 1 = ioCount
                   THEN ioPhase' = "Returned" /\ ioRet' = Ret(ioTotal + 1)
                   ELSE UNCHANGED <<ioPhase, ioRet>>
           ELSE /\ ioPhase' = "Returned"
                /\ ioRet' = Ret(ioTotal)
                /\ UNCHANGED ioTotal
    /\ UNCHANGED <<ioOp, ioSize, ioCount>>
    /\ UNCHANGED ioFrame

io_read == IoEnter("read")
io_read_stride == IoStride("read")
io_write == IoEnter("write")
io_write_stride == IoStride("write")

\* The engine calls one of the two callbacks on an open file.
IoInit ==
    /\ ioOp \in {"read", "write"}
    /\ ioSize \in 0 .. MaxSize
    /\ ioCount \in 0 .. MaxLen
    /\ ioPhase = "Called"
    /\ ioTotal = 0
    /\ ioLog = <<>>
    /\ ioRet = NoRet
    /\ ViewIdle
    /\ ArenaIdle
    /\ MatIdle
    /\ CompIdle
    /\ NodeIdle
    /\ FaceIdle
    /\ LogIdle
    /\ MetaIdle
    /\ LateIdle

IoNext == io_read \/ io_read_stride \/ io_write \/ io_write_stride

IoSpec == IoInit /\ [][IoNext]_vars

\* ------------------------------------------------------------- log stream

\* LogStream::file / stdout / stderr / callback: every constructor builds
\* the stream with attached: false.
LogInit ==
    /\ lsKind \in {"file", "stdout", "stderr", "callback"}
    /\ lsAttached = FALSE
    /\ lsCalls = <<>>
    /\ lsForeign = <<>>
    /\ lsSeen = NotAsked
    /\ lsDropped = FALSE
    /\ ViewIdle
    /\ ArenaIdle
    /\ MatIdle
    /\ CompIdle
    /\ NodeIdle
    /\ FaceIdle
    /\ IoIdle
    /\ MetaIdle
    /\ LateIdle

\* The stream is alive and may be called once more.
Callable == ~lsDropped /\ Len(lsCalls) < MaxOps

\* LogStream::attached.
LogStream_attached ==
    /\ Callable
    /\ lsSeen' = [asked |-> TRUE, v |-> lsAttached]
    /\ lsCalls' = Append(lsCalls, "attached")
    /\ UNCHANGED <<lsKind, lsAttached, lsForeign, lsDropped>>
    /\ UNCHANGED logFrame

\* The body of LogStream::attach: the engine call when the field is false.
\* The field is not written.
attach_body ==
    /\ lsForeign' = IF ~lsAttached THEN Append(lsForeign, "aiAttachLogStream")
                    ELSE lsForeign
    /\ UNCHANGED lsAttached

\* The body of LogStream::detach: the engine call when the field is true.
\* The field is not written.
detach_body ==
    /\ lsForeign' = IF lsAttached THEN Append(lsForeign, "aiDetachLogStream")
                    ELSE lsForeign
    /\ UNCHANGED lsAttached

LogStream_attach ==
    /\ Callable
    /\ attach_body
    /\ lsCalls' = Append(lsCalls, "attach")
    /\ UNCHANGED <<lsKind, lsSeen, lsDropped>>
    /\ UNCHANGED logFrame

LogStream_detach ==
    /\ Callable
    /\ detach_body
    /\ lsCalls' = Append(lsCalls, "detach")
    /\ UNCHANGED <<lsKind, lsSeen, lsDropped>>
    /\ UNCHANGED logFrame

\* Drop for LogStream: self.detach().
LogStream_drop ==
    /\ ~lsDropped
    /\ detach_body
    /\ lsDropped' = TRUE
    /\ UNCHANGED <<lsKind, lsCalls, lsSeen>>
    /\ UNCHANGED logFrame

LogNext ==
    \/ LogStream_attached
    \/ LogStream_attach
    \/ LogStream_detach
    \/ LogStream_drop

LogSpec == LogInit /\ [][LogNext]_vars

\* ------------------------------------------------- metadata and textures

\* &*meta of Metadata::from_raw.  For a null meta this is undefined
\* behaviour: a build that checks dereferences aborts here, one that does
\* not goes on with a reference to address 0.
deref_raw(meta) == IF meta = 0 THEN {"Abort", "Ref"} ELSE {"Ref"}

\* Node::metadata: Metadata::from_raw(self.mMetaData), index 0.
Node_metadata ==
    /\ metaFault = "-"
    /\ \E way \in deref_raw(mMetaData) :
        IF way = "Abort"
        THEN metaFault' = "Abort" /\ UNCHANGED metaIter
        ELSE metaIter' = [made |-> TRUE, index |-> 0] /\ UNCHANGED metaFault
    /\ metaOut' = <<>>
    /\ metaRead' = {}
    /\ UNCHANGED <<mMetaData, mNumProperties, mKeys, mValues>>
    /\ UNCHANGED <<pcData, mWidth, mHeight, xres>>
    /\ UNCHANGED metaFrame

\* Some((key, value)): references to the i-th key and the i-th value.
SomePair(i) == [some |-> TRUE, kind |-> "pair", v |-> i]

\* Mutant: the remaining length counts one property too many.
Metadata_len_one_more == mNumProperties - metaIter.index + 1

\* ExactSizeIterator::len of Metadata, read through the reference.
Metadata_len == mNumProperties - metaIter.index

\* Metadata::next.  Its first step reads mNumProperties through the
\* reference: the process faults when that reference is to address 0.
\* A null key or value array ends the call with None before the index
\* moves.
Metadata_next ==
    /\ metaFault = "-"
    /\ metaIter.made
    /\ Len(metaOut) < mNumProperties + 2
    /\ metaRead' = metaRead \cup {mMetaData}
    /\ IF mMetaData = 0
       THEN /\ metaFault' = "Fault"
            /\ UNCHANGED <<metaIter, metaOut>>
       ELSE /\ UNCHANGED metaFault
            /\ IF Metadata_len > 0 /\ mKeys # 0 /\ mValues # 0
               THEN /\ metaOut' = Append(metaOut, SomePair(metaIter.index))
                    /\ metaIter' = [metaIter EXCEPT !.index = @ + 1]
               ELSE /\ metaOut' = Append(metaOut, None)
                    /\ UNCHANGED metaIter
    /\ UNCHANGED <<mMetaData, mNumProperties, mKeys, mValues>>
    /\ UNCHANGED <<pcData, mWidth, mHeight, xres>>
    /\ UNCHANGED metaFrame

\* Texture::data: None for a null texel pointer, else the mWidth * mHeight
\* texels at it.
Texture_data ==
    IF pcData = 0 THEN [done |-> TRUE, some |-> FALSE, len |-> 0]
    ELSE [done |-> TRUE, some |-> TRUE, len |-> mWidth * mHeight]

TextureData ==
    /\ metaFault = "-"
    /\ xres' = Texture_data
    /\ UNCHANGED <<mMetaData, mNumProperties, mKeys, mValues>>
    /\ UNCHANGED <<metaIter, metaOut, metaFault, metaRead>>
    /\ UNCHANGED <<pcData, mWidth, mHeight>>
    /\ UNCHANGED metaFrame

\* A node with or without a metadata record, and an embedded texture.
MetaInit ==
    /\ mMetaData \in {0, ArrBase}
    /\ mNumProperties \in IF mMetaData = 0 THEN {0} ELSE 0 .. MaxLen
    /\ mKeys \in IF mMetaData = 0 THEN {0} ELSE {0, ArrBase}
    /\ mValues \in IF mMetaData = 0 THEN {0} ELSE {0, ArrBase}
    /\ metaIter = NoMeta
    /\ metaOut = <<>>
    /\ metaFault = "-"
    /\ metaRead = {}
    /\ pcData \in {0, ArrBase}
    /\ mWidth \in 0 .. MaxWord
    /\ mHeight \in 0 .. MaxWord
    /\ xres = NoData
    /\ ViewIdle
    /\ ArenaIdle
    /\ MatIdle
    /\ CompIdle
    /\ NodeIdle
    /\ FaceIdle
    /\ IoIdle
    /\ LogIdle
    /\ LateIdle

MetaNext == Node_metadata \/ Metadata_next \/ TextureData

MetaSpec == MetaInit /\ [][MetaNext]_vars

\* ------------------------------------------------------------ the machine

\* The foreign arrays the engine can hand over: any pointer, any count, any
\* words in the first mNum slots.  What follows the array is other data.
ForeignArrays ==
    {m \in [0 .. MaxLen -> 0 .. MaxWord] :
        \E n \in 0 .. MaxLen : \A i \in 0 .. MaxLen : i >= n => m[i] = 1}

ViewInit ==
    /\ field \in Fields
    /\ mPtr \in {0, ArrBase}
    /\ mNum \in 0 .. MaxLen
    /\ mem \in ForeignArrays
    /\ \A i \in 0 .. MaxLen : (i >= mNum \/ mPtr = 0) => mem[i] = 1
    /\ iter = NoIter
    /\ yielded = <<>>
    /\ itTouched = {}
    /\ res = NoRes
    /\ ArenaIdle
    /\ MatIdle
    /\ ExtIdle

\* The accessor builds a fresh iterator (restart is by reconstruction).
IterNew ==
    /\ iter' = IterOf(field)
    /\ yielded' = <<>>
    /\ itTouched' = {}
    /\ UNCHANGED <<field, mPtr, mNum, mem, res>>
    /\ UNCHANGED <<arenaVars, matVars, extVars>>

IterNext ==
    /\ iter.made
    /\ Len(yielded) < MaxLen + 2
    /\ LET s == NextOf(field, iter) IN
        /\ iter' = s.self
        /\ yielded' = Append(yielded, s.item)
        /\ itTouched' = itTouched \cup s.at
    /\ UNCHANGED <<field, mPtr, mNum, mem, res>>
    /\ UNCHANGED <<arenaVars, matVars, extVars>>

Lookup ==
    \E id \in 0 .. MaxLen + 1 :
        /\ LET g == LookupOf(field, id) IN
            res' = [done |-> TRUE, idx |-> id, out |-> g.out, at |-> g.at]
        /\ UNCHANGED <<field, mPtr, mNum, mem, iter, yielded, itTouched>>
        /\ UNCHANGED <<arenaVars, matVars, extVars>>

ViewNext == IterNew \/ IterNext \/ Lookup

Init == ViewInit

Next == ViewNext

Spec == Init /\ [][Next]_vars

\* ---------------------------------------------------------- mesh channels

\* Indexing the fixed arrays mColors / mTextureCoords: out of range panics.
SlotOf(arrays, set) ==
    IF set \in DOMAIN arrays THEN [ok |-> TRUE, ptr |-> arrays[set]]
    ELSE [ok |-> FALSE, ptr |-> 0]

Returned(g) == [fault |-> FALSE, got |-> g]

\* A read through a null pointer: the process faults.
NullRead == [fault |-> TRUE, got |-> Got(None, {})]

\* Mesh::color_data: the bounds check, then the element is read through
\* the array pointer as it is.
Mesh_color_data(array, id) ==
    IF InBounds(id, mNum)
    THEN IF array = 0 THEN NullRead
         ELSE Returned(Got(SomeVal(Mem(array + id)), {Off(array + id)}))
    ELSE Returned(Got(None, {}))

\* Color4DIter::next: the iterator of copied values.
Color4DIter_next(self) == impl_iterator_pod_next(self)

\* The channel layouts the engine builds: the first k slots are in use.
ChannelLayouts ==
    {[c \in ChannelSlots |-> IF c < k THEN ArrBase ELSE 0] : k \in {0, 1, 2, 8}}

\* A mesh with mNum vertices (mNumVertices) and its channel arrays.
ChanInit ==
    /\ field = "mVertices"
    /\ mPtr = 0
    /\ mNum \in 0 .. MaxLen
    /\ mem = [i \in 0 .. MaxLen |-> 1]
    /\ iter = NoIter
    /\ yielded = <<>>
    /\ itTouched = {}
    /\ res = NoRes
    /\ mColors \in ChannelLayouts
    /\ mTextureCoords \in ChannelLayouts
    /\ chCall = NoCall
    /\ chEnd = "-"
    /\ ArenaIdle
    /\ MatIdle
    /\ CompIdle
    /\ NodeIdle
    /\ FaceIdle
    /\ IoIdle
    /\ LogIdle
    /\ MetaIdle
    /\ HintIdle
    /\ EntryIdle
    /\ FileIdle
    /\ VertIdle

\* The iterator accessors: index the array of pointers, build the iterator.
\* Only the outcome of the last call is kept.
ChannelIter(fn, arrays) ==
    \E set \in 0 .. MaxChannel :
        /\ chEnd = "-"
        /\ chCall' = [fn |-> fn, set |-> set]
        /\ LET slot == SlotOf(arrays, set) IN
            IF slot.ok
            THEN /\ iter' = define_iter_new(slot.ptr, mNum)
                 /\ yielded' = <<>>
                 /\ itTouched' = {}
                 /\ UNCHANGED chEnd
            ELSE /\ chEnd' = "Panic"
                 /\ UNCHANGED <<iter, yielded, itTouched>>
        /\ res' = NoRes
        /\ UNCHANGED <<field, mPtr, mNum, mem, mColors, mTextureCoords>>
        /\ UNCHANGED chanFrame

Mesh_vertex_colors == ChannelIter("vertex_colors", mColors)

Mesh_texture_coords == ChannelIter("texture_coords", mTextureCoords)

\* next() on the iterator built last.
ChannelIterNext ==
    /\ chEnd = "-"
    /\ iter.made
    /\ Len(yielded) < mNum + 1
    /\ LET s == IF chCall.fn = "vertex_colors" THEN Color4DIter_next(iter)
                ELSE Vector3DIter_next(iter) IN
        /\ iter' = s.self
        /\ yielded' = Append(yielded, s.item)
        /\ itTouched' = itTouched \cup s.at
    /\ UNCHANGED <<field, mPtr, mNum, mem, res, chanVars>>
    /\ UNCHANGED chanFrame

\* Mesh::vertex_color(set_id, id).
Mesh_vertex_color ==
    \E set \in 0 .. MaxChannel, id \in 0 .. MaxLen + 1 :
        /\ chEnd = "-"
        /\ chCall' = [fn |-> "vertex_color", set |-> set]
        /\ LET slot == SlotOf(mColors, set) IN
            IF slot.ok
            THEN LET r == Mesh_color_data(slot.ptr, id) IN
                /\ chEnd' = IF r.fault THEN "Fault" ELSE "-"
                /\ res' = [done |-> ~r.fault, idx |-> id,
                           out |-> r.got.out, at |-> r.got.at]
            ELSE /\ chEnd' = "Panic"
                 /\ res' = [NoRes EXCEPT !.idx = id]
        /\ iter' = NoIter
        /\ yielded' = <<>>
        /\ itTouched' = {}
        /\ UNCHANGED <<field, mPtr, mNum, mem, mColors, mTextureCoords>>
        /\ UNCHANGED chanFrame

\* Mesh::texture_coord(channel_id, id).
Mesh_texture_coord ==
    \E set \in 0 .. MaxChannel, id \in 0 .. MaxLen + 1 :
        /\ chEnd = "-"
        /\ chCall' = [fn |-> "texture_coord", set |-> set]
        /\ LET slot == SlotOf(mTextureCoords, set) IN
            IF slot.ok
            THEN LET g == Mesh_vertex_data(slot.ptr, id) IN
                /\ res' = [done |-> TRUE, idx |-> id, out |-> g.out,
                           at |-> g.at]
                /\ UNCHANGED chEnd
            ELSE /\ chEnd' = "Panic"
                 /\ res' = [NoRes EXCEPT !.idx = id]
        /\ iter' = NoIter
        /\ yielded' = <<>>
        /\ itTouched' = {}
        /\ UNCHANGED <<field, mPtr, mNum, mem, mColors, mTextureCoords>>
        /\ UNCHANGED chanFrame

ChanNext ==
    \/ Mesh_vertex_colors
    \/ Mesh_texture_coords
    \/ ChannelIterNext
    \/ Mesh_vertex_color
    \/ Mesh_texture_coord

ChannelSpec == ChanInit /\ [][ChanNext]_vars

\* ------------------------------------------------- texture format hint

\* The bytes of the hint field: 0 is the zero byte, 1 and 2 are ASCII
\* letters, 3 is a byte of 0x80 or more.
HintBytes == 0 .. 3
HighByte == 3

\* The bytes of b before its first zero byte (all of b when it has none).
UpToNul(b) ==
    LET zeros == {i \in 1 .. Len(b) : b[i] = 0}
        n == IF zeros = {} THEN Len(b)
             ELSE (CHOOSE i \in zeros : \A j \in zeros : i <= j) - 1
    IN SubSeq(b, 1, n)

\* CStr::to_bytes of CStr::from_bytes_with_nul_unchecked(bytes).  With a
\* zero byte before the last one the call's precondition is broken and the
\* behaviour undefined: a CStr that keeps the slice's length gives every
\* byte but the last, one that measures the string stops at the first zero.
CStr_to_bytes(bytes) ==
    IF \E i \in 1 .. Len(bytes) - 1 : bytes[i] = 0
    THEN {SubSeq(bytes, 1, Len(bytes) - 1), UpToNul(bytes)}
    ELSE {SubSeq(bytes, 1, Len(bytes) - 1)}

NoHintText == [done |-> TRUE, tag |-> "None", text |-> <<>>]
HintText(t) == [done |-> TRUE, tag |-> "Some", text |-> t]
HintPanic == [done |-> TRUE, tag |-> "Panic", text |-> <<>>]

\* Texture::format_hint: the outcomes of the call.  to_str().unwrap()
\* panics on bytes that are not UTF-8.
Texture_format_hint ==
    {IF \E i \in 1 .. Len(out) : out[i] = HighByte THEN HintPanic
     ELSE IF Len(out) = 0 THEN NoHintText
     ELSE HintText(out) : out \in CStr_to_bytes(achFormatHint)}

\* The engine zeroes the field and writes a hint shorter than the field.
HintInit ==
    /\ achFormatHint \in
        {b \in [1 .. MaxHint -> HintBytes] : b[MaxHint] = 0}
    /\ hres = NoHint
    /\ ViewIdle
    /\ ArenaIdle
    /\ MatIdle
    /\ CompIdle
    /\ NodeIdle
    /\ FaceIdle
    /\ IoIdle
    /\ LogIdle
    /\ MetaIdle
    /\ ChanIdle
    /\ EntryIdle
    /\ FileIdle
    /\ VertIdle

TextureFormatHint ==
    /\ \E outcome \in Texture_format_hint : hres' = outcome
    /\ UNCHANGED achFormatHint
    /\ UNCHANGED hintFrame

HintNext == TextureFormatHint

HintSpec == HintInit /\ [][HintNext]_vars

\* --------------------------------------------------------- metadata entry

\* The type tags with an arm in MetadataEntry::get.
KnownTags ==
    {"AI_BOOL", "AI_INT32", "AI_UINT64", "AI_FLOAT", "AI_DOUBLE",
     "AI_AISTRING", "AI_AIVECTOR3D"}

\* The tags an entry can carry: the known ones, the engine's end marker and
\* a tag of a later engine version.
TypeTags == KnownTags \cup {"AI_META_MAX", "AI_INT64"}

\* The MetadataValue variant of each arm.
VariantOf(tag) ==
    CASE tag = "AI_BOOL" -> "Bool"
      [] tag = "AI_INT32" -> "I32"
      [] tag = "AI_UINT64" -> "U64"
      [] tag = "AI_FLOAT" -> "F32"
      [] tag = "AI_DOUBLE" -> "F64"
      [] tag = "AI_AISTRING" -> "Str"
      [] tag = "AI_AIVECTOR3D" -> "Vector3D"

EntryValue(variant) == [done |-> TRUE, tag |-> "Value", variant |-> variant]
EntryPanic == [done |-> TRUE, tag |-> "Panic", variant |-> "-"]
EntryFault == [done |-> TRUE, tag |-> "Fault", variant |-> "-"]

\* MetadataEntry::get: the match on mType; every known arm reads through
\* mData, the last arm is unreachable!().
MetadataEntry_get ==
    IF mType \in KnownTags
    THEN IF mData = 0 THEN EntryFault ELSE EntryValue(VariantOf(mType))
    ELSE EntryPanic

EntryInit ==
    /\ mType \in TypeTags
    /\ mData \in {0} \cup (ArrBase .. ArrBase + MaxLen)
    /\ eres = NoEntry
    /\ ecalls = 0
    /\ ViewIdle
    /\ ArenaIdle
    /\ MatIdle
    /\ CompIdle
    /\ NodeIdle
    /\ FaceIdle
    /\ IoIdle
    /\ LogIdle
    /\ MetaIdle
    /\ ChanIdle
    /\ HintIdle
    /\ FileIdle
    /\ VertIdle

\* get() takes &self: it can be called again on the same entry.
EntryGet ==
    /\ eres.tag \notin {"Panic", "Fault"}
    /\ ecalls < MaxOps
    /\ eres' = MetadataEntry_get
    /\ ecalls' = ecalls + 1
    /\ UNCHANGED <<mType, mData>>
    /\ UNCHANGED entryFrame

EntryNext == EntryGet

EntrySpec == EntryInit /\ [][EntryNext]_vars

\* ------------------------------------------------- I/O bridge: lifecycle

\* Mutant: the callback takes the box back and lets it drop at its end.
get_file_owned(file) == "Dropped"

\* get_file: Box::leak(Box::from_raw(UserData)) lends the file to the
\* callback and leaves it as it was when the callback returns.
get_file(file) == file

\* wrap_file_io: the engine holds the aiFileIO and has opened nothing.
FileInit ==
    /\ fOpen = NotOpened
    /\ fFile = "-"
    /\ fEvents = <<>>
    /\ fLog = <<>>
    /\ fEnd = "-"
    /\ ViewIdle
    /\ ArenaIdle
    /\ MatIdle
    /\ CompIdle
    /\ NodeIdle
    /\ FaceIdle
    /\ IoIdle
    /\ LogIdle
    /\ MetaIdle
    /\ ChanIdle
    /\ HintIdle
    /\ EntryIdle
    /\ VertIdle

\* io_open: null when the backend's open gives None, else the file is
\* boxed twice and the address of a fresh aiFile returned.
io_open ==
    /\ ~fOpen.called
    /\ \E ans \in {"None", "Some"} :
        /\ fOpen' = [called |-> TRUE, ans |-> ans,
                     handle |-> IF ans = "None" THEN 0 ELSE ArrBase]
        /\ fFile' = IF ans = "None" THEN "-" ELSE "Alive"
    /\ UNCHANGED <<fEvents, fLog, fEnd>>
    /\ UNCHANGED fileFrame

\* The engine calls back on a handle it got and has not closed.
Usable == fOpen.handle # 0 /\ fEnd = "-" /\ Len(fLog) < MaxOps

\* A callback that borrows the file through get_file and returns.
Callback(name) ==
    /\ Usable
    /\ fFile' = get_file(fFile)
    /\ fLog' = Append(fLog, name)
    /\ UNCHANGED <<fOpen, fEvents, fEnd>>
    /\ UNCHANGED fileFrame

FileRead == Callback("read")
FileWrite == Callback("write")
io_tell == Callback("tell")
io_size == Callback("size")
io_flush == Callback("flush")

\* io_seek: an origin other than SET, CUR, END panics; the backend's answer
\* becomes 0 or aiReturn_FAILURE.
io_seek ==
    /\ Usable
    /\ fFile' = get_file(fFile)
    /\ \E origin \in {"SET", "CUR", "END", "other"} :
        IF origin = "other"
        THEN fEnd' = "Panic" /\ fLog' = Append(fLog, "seek!")
        ELSE /\ UNCHANGED fEnd
             /\ \E ok \in BOOLEAN :
                 fLog' = Append(fLog, IF ok THEN "seek" ELSE "seek failed")
    /\ UNCHANGED <<fOpen, fEvents>>
    /\ UNCHANGED fileFrame

\* io_close: the box is taken back, close() is called on the file, and the
\* file is dropped when the box goes out of scope.
io_close ==
    /\ fOpen.handle # 0
    /\ fEnd = "-"
    /\ fEvents' = fEvents \o <<"close", "drop">>
    /\ fFile' = "Dropped"
    /\ fEnd' = "Closed"
    /\ UNCHANGED <<fOpen, fLog>>
    /\ UNCHANGED fileFrame

FileNext ==
    \/ io_open
    \/ FileRead
    \/ FileWrite
    \/ io_tell
    \/ io_size
    \/ io_seek
    \/ io_flush
    \/ io_close

FileSpec == FileInit /\ [][FileNext]_vars

\* ------------------------------------------------------- mesh vertices

\* The four per-vertex arrays lie one after the other in the arena.
ArrayBase(k) == ArrBase + k * (MaxLen + 1)

\* Vertex { pos, normal, tangent, bitangent } with the attributes swapped.
Vertex_swapped(pos, normal, tangent, bitangent) ==
    [some |-> TRUE, pos |-> pos, normal |-> normal, tangent |-> bitangent,
     bitangent |-> tangent]

\* Some(Vertex { pos, normal, tangent, bitangent }).
Vertex(pos, normal, tangent, bitangent) ==
    [some |-> TRUE, pos |-> pos, normal |-> normal, tangent |-> tangent,
     bitangent |-> bitangent]

\* The closure ended with None.
NoVertex ==
    [some |-> FALSE, pos |-> None, normal |-> None, tangent |-> None,
     bitangent |-> None]

\* A mesh with mNum vertices (mNumVertices); every array is null or holds
\* that many elements, each with a word of its own.
VertInit ==
    /\ field = "mVertices"
    /\ mPtr = 0
    /\ mNum \in 0 .. MaxLen
    /\ mem = [i \in 0 .. 4 * (MaxLen + 1) - 1 |-> i + 1]
    /\ iter = NoIter
    /\ yielded = <<>>
    /\ itTouched = {}
    /\ res = NoRes
    /\ vArrays \in [pos : {0, ArrayBase(0)}, normal : {0, ArrayBase(1)},
                    tangent : {0, ArrayBase(2)},
                    bitangent : {0, ArrayBase(3)}]
    /\ vIters = NoIters
    /\ vOut = <<>>
    /\ ArenaIdle
    /\ MatIdle
    /\ CompIdle
    /\ NodeIdle
    /\ FaceIdle
    /\ IoIdle
    /\ LogIdle
    /\ MetaIdle
    /\ ChanIdle
    /\ HintIdle
    /\ EntryIdle
    /\ FileIdle

\* Mesh::vertices: the four iterators are built and moved into the closure.
Mesh_vertices ==
    /\ vIters' = [made |-> TRUE,
                  pos |-> define_iter_new(vArrays.pos, mNum),
                  normal |-> define_iter_new(vArrays.normal, mNum),
                  tangent |-> define_iter_new(vArrays.tangent, mNum),
                  bitangent |-> define_iter_new(vArrays.bitangent, mNum)]
    /\ vOut' = <<>>
    /\ UNCHANGED <<vArrays, viewVars>>
    /\ UNCHANGED vertFrame

\* One call of the closure: `positions.next()?` returns before the other
\* three iterators are touched.
VerticesNext ==
    /\ vIters.made
    /\ Len(vOut) < mNum + 2
    /\ LET p == Vector3DIter_next(vIters.pos)
           n == Vector3DIter_next(vIters.normal)
           t == Vector3DIter_next(vIters.tangent)
           b == Vector3DIter_next(vIters.bitangent)
       IN IF p.item.some
          THEN /\ vOut' = Append(vOut, Vertex(p.item, n.item, t.item, b.item))
               /\ vIters' = [made |-> TRUE, pos |-> p.self, normal |-> n.self,
                             tangent |-> t.self, bitangent |-> b.self]
          ELSE /\ vOut' = Append(vOut, NoVertex)
               /\ vIters' = [vIters EXCEPT !.pos = p.self]
    /\ UNCHANGED <<vArrays, viewVars>>
    /\ UNCHANGED vertFrame

VertNext == Mesh_vertices \/ VerticesNext

VertexSpec == VertInit /\ [][VertNext]_vars

\* ----------------------------------------------- claims on views (Spec)

\* The fields whose iterator walks an array of pointers (indirect flavour),
\* and those whose indexed lookup reads a pointer slot.
IndirectIterFields == {"mBones", "mWeights", "mChannels"}
PodFields == {"mVertices", "mNormals", "mTangents", "mBitangents"}
IndirectLookupFields == {"mBones", "mChannels"}

\* The element at position i of the array, as the iterator flavour of field f
\* reads it: the record in place, the record a slot points to, or a copy.
ElementAt(f, i) ==
    IF f \in IndirectIterFields THEN SomeRef(mem[i])
    ELSE IF f \in PodFields THEN SomeVal(mem[i])
    ELSE SomeRef(ArrBase + i)

\* Every call so far: an element in order for the first mNum, nothing after.
YieldsExactlyCount ==
    \A k \in 1 .. Len(yielded) :
        IF k <= mNum
        THEN yielded[k] = ElementAt(field, k - 1)
        ELSE yielded[k] = None

SlotsNonNull == \A i \in 0 .. MaxLen : i < mNum => mem[i] # 0

\* C1 as stated: every iterator over a non-null pointer with count N yields
\* the elements 0 .. N-1 in its first N calls and nothing afterwards.
C1_Original == (iter.made /\ mPtr # 0) => YieldsExactlyCount

\* C1 amended: a direct or by-value iterator over a non-null pointer with
\* count N, and an indirect iterator whose N pointer slots are all non-null,
\* yields the elements 0 .. N-1 in its first N calls and nothing afterwards.
C1_ExactCount ==
    (/\ iter.made
     /\ mPtr # 0
     /\ (field \in IndirectIterFields => SlotsNonNull))
    => YieldsExactlyCount

\* C1 witness: an indirect iterator over two or more non-null slots that was
\* called more than N times.
C1_Witness ==
    /\ field = "mBones"
    /\ mPtr # 0
    /\ mNum >= 2
    /\ SlotsNonNull
    /\ Len(yielded) > mNum

\* C2: an iterator built from a null pointer and a count N > 0 yields nothing
\* on every call.
C2_NullPointerEmpty ==
    (iter.made /\ mPtr = 0 /\ mNum > 0) =>
        \A k \in 1 .. Len(yielded) : yielded[k] = None

\* C2 witness: a null pointer, a positive count, and two calls made.
C2_Witness ==
    /\ iter.made
    /\ mPtr = 0
    /\ mNum > 0
    /\ Len(yielded) >= 2

\* The logical length of the collection: a null array pointer is an absent,
\* hence empty, collection.
LogicalLength == IF mPtr = 0 THEN 0 ELSE mNum

\* C3 as stated: a lookup is present for every index below the logical
\* length L, absent for every index from L on, and touches nothing at or
\* beyond L.
C3_Original ==
    res.done =>
        /\ (res.idx < LogicalLength => res.out.some)
        /\ (res.idx >= LogicalLength => ~res.out.some)
        /\ \A o \in res.at : o < LogicalLength

\* C3 amended: a lookup at index i is present exactly when i is below the
\* logical length L and, for an array of pointers, slot i is not null; it is
\* absent otherwise, and it touches nothing at or beyond L.
C3_LookupBounds ==
    res.done =>
        /\ res.out.some <=>
                /\ res.idx < LogicalLength
                /\ (field \in IndirectLookupFields => mem[res.idx] # 0)
        /\ \A o \in res.at : o >= 0 /\ o < LogicalLength

\* C3 witness: the last element of an array of pointers, of two or more, was
\* looked up and found.
C3_Witness ==
    /\ field = "mBones"
    /\ res.done
    /\ mNum >= 2
    /\ res.idx = mNum - 1
    /\ res.out.some

\* C4 as stated, on well-formed storage (a non-null array pointer and no zero
\* word among the first mNum slots): the i-th item of the iterator is what
\* the indexed lookup returns for i, for every i below the count.
C4_Mirror ==
    (iter.made /\ mPtr # 0 /\ SlotsNonNull) =>
        \A k \in 1 .. Len(yielded) :
            k <= mNum => yielded[k] = LookupOf(field, k - 1).out

\* ------------------------------------- claims on the arena (ArenaSpec)

\* The arena of a request moves only Unopened -> Opened -> Released.
ArenaStep ==
    \A h \in Handles :
        \/ arena'[h] = arena[h]
        \/ arena[h] = "Unopened" /\ arena'[h] = "Opened"
        \/ arena[h] = "Opened" /\ arena'[h] = "Released"

\* C5: an arena moves only Unopened -> Opened -> Released and never leaves
\* Released; the release call has been issued exactly once when it is
\* Released and not at all before; and, its views and its root going out of
\* scope in the end, every Opened arena is Released.
C5_ArenaLifecycle ==
    /\ [](\A h \in Handles :
            releases[h] = (IF arena[h] = "Released" THEN 1 ELSE 0))
    /\ [][ArenaStep]_vars
    /\ \A h \in Handles : (arena[h] = "Opened") ~> (arena[h] = "Released")

\* C5 witness: one arena was opened and released, with its one release call,
\* while another is still open.
C5_Witness ==
    \E h, g \in Handles :
        /\ arena[h] = "Released"
        /\ releases[h] = 1
        /\ arena[g] = "Opened"

\* C6 as stated: once an arena is Released no view or iterator over it is
\* live, and none is dereferenced.
C6_NoViewOutlivesArena ==
    /\ \A h \in Handles :
            arena[h] = "Released" => (views[h] = 0 /\ ~freeIter[h])
    /\ ~staleUse

\* C7: an import call either succeeds, returning the scene handle of an
\* arena that was opened, or fails, returning the engine's error code
\* unchanged and leaving the arena Unopened with nothing to release; and no
\* arena is opened without a successful call.
C7_ImportOutcomes ==
    \A h \in Handles :
        IF result[h].called
        THEN \/ /\ result[h].ok
                /\ result[h].scene = h
                /\ arena[h] \in {"Opened", "Released"}
             \/ /\ ~result[h].ok
                /\ engineErr[h] \in ErrorCodes
                /\ result[h].err = engineErr[h]
                /\ arena[h] = "Unopened"
                /\ releases[h] = 0
        ELSE arena[h] = "Unopened"

\* C7 witness: one request failed with the engine's second code, another
\* succeeded.
C7_Witness ==
    \E h, g \in Handles :
        /\ result[h].called /\ ~result[h].ok /\ result[h].err = "E_PARSE"
        /\ result[g].called /\ result[g].ok /\ arena[g] = "Opened"


\* ------------------------------- claims on the material (MaterialSpec)

\* The properties of the bag stored under the triple of the key asked for.
Matching ==
    LET t == MaterialKey_triple(mkey)
    IN IF ~t.some THEN {}
       ELSE {p \in mbag : p.name = t.name /\ p.semantic = t.semantic
                           /\ p.index = t.index}

\* The variants each enumeration declares, by discriminant, and the bits
\* the flag type declares.
DeclaredPayloads(value_type) ==
    CASE value_type = "ShadingModel" -> {U32(n) : n \in 1 .. 10}
      [] value_type = "MaterialBlendOp" -> {U32(n) : n \in 0 .. 1}
      [] value_type = "BlendOp" -> {U32(n) : n \in 0 .. 5}
      [] value_type = "Mapping" -> {U32(n) : n \in 0 .. 4}
      [] value_type = "WrappingMode" -> {U32(n) : n \in 0 .. 3}
      [] value_type = "TextureFlags" -> SUBSET (0 .. 30)

EnumTyped ==
    {"ShadingModel", "MaterialBlendOp", "BlendOp", "Mapping", "WrappingMode",
     "TextureFlags"}

\* C8: get_value on a material whose bag holds no property under the key's
\* (name, component, index) triple returns absent.
C8_AbsentWhenNoMatch ==
    (mres.done /\ Matching = {}) => mres.tag = "None"

\* C9: for a key whose value type is an enumeration or the flag set, a
\* property that is present but whose integer payload is no declared variant
\* (or has an undeclared bit) reads as absent, and a value that is returned
\* comes from a declared payload.
C9_UnknownPayloadAbsent ==
    (mres.done /\ MaterialKey_type_(mkey) \in EnumTyped) =>
        \A p \in Matching :
            /\ (p.readable
                /\ p.payload \notin DeclaredPayloads(MaterialKey_type_(mkey)))
                    => mres.tag = "None"
            /\ mres.tag = "Some"
                    => p.payload \in DeclaredPayloads(MaterialKey_type_(mkey))

\* An enumeration-typed key was read from a property whose payload is no
\* declared variant, and the answer was absent.
C9_Witness ==
    /\ mres.done
    /\ mres.tag = "None"
    /\ MaterialKey_type_(mkey) \in EnumTyped
    /\ \E p \in Matching :
        /\ p.readable
        /\ p.payload \notin DeclaredPayloads(MaterialKey_type_(mkey))

\* C10: get_value is total: for every key in the catalogue, the texture
\* mapping axis included, a call returns a value or absent.
C10_GetValueTotal ==
    mres.done => mres.tag \in {"Some", "None"}

\* The variant each key is documented to decode to.
DocumentedVariant(kind) ==
    CASE kind \in {"Name", "Texture"} -> "String"
      [] kind = "Color" -> "Color3D"
      [] kind \in {"Wireframe", "TwoSided"} -> "Bool"
      [] kind = "ShadingModel" -> "ShadingModel"
      [] kind = "BlendFunc" -> "MaterialBlendOp"
      [] kind \in {"Opacity", "Shininess", "ShininessStrength",
                   "RefractionIndex", "TextureBlend"} -> "Float"
      [] kind = "TextureOp" -> "BlendOp"
      [] kind = "Mapping" -> "Mapping"
      [] kind = "UVWSource" -> "Int"
      [] kind \in {"MappingModeU", "MappingModeV"} -> "WrappingMode"
      [] kind = "Flags" -> "TextureFlags"
      [] OTHER -> "-"

\* C11: a present get_value result has the variant the static key-to-type
\* table gives for the key, whatever the material holds.
C11_VariantByKey ==
    (mres.done /\ mres.tag = "Some") => mres.variant = DocumentedVariant(mkey.kind)

\* C11 witness: the UVW source of a texture slot was read and was present.
C11_Witness ==
    /\ mres.done
    /\ mres.tag = "Some"
    /\ mkey.kind = "UVWSource"
    /\ mres.variant = "Int"


\* ------------------------------ claims on components (ComponentSpec)

\* The colour the material holds for the component asked for: the readable
\* properties stored under the component's colour key.
ExplicitColor ==
    LET t == MaterialKey_triple(ColorKey(mtype))
    IN IF ~t.some THEN {}
       ELSE {p \in mbag : /\ p.name = t.name
                          /\ p.semantic = t.semantic
                          /\ p.index = t.index
                          /\ p.readable}

\* C12: component(type) is absent with no texture and no colour; it has the
\* explicit colour when there is one, with or without textures; and it has
\* the zero colour with at least one texture and no explicit colour.
C12_BaseColorFallback ==
    mcomp.done =>
        /\ (mcount = 0 /\ ExplicitColor = {}) => ~mcomp.some
        /\ (mcount > 0 /\ ExplicitColor = {}) =>
                (mcomp.some /\ mcomp.color = {})
        /\ \A p \in ExplicitColor : mcomp.some /\ mcomp.color = p.payload

\* C12 witness: the reflection component of a material that has textures
\* for it, and properties but no readable reflective colour, was asked for
\* and came back with the zero colour.
C12_Witness ==
    /\ mcomp.done
    /\ mcomp.some
    /\ mcount > 0
    /\ ExplicitColor = {}
    /\ mtype = "Reflection"
    /\ mbag # {}

\* C13 as stated: a present component's texture sequence reports the exact
\* length num_textures(type) and produces one item for each slot index
\* 0 .. count-1 in ascending order: no call for a slot fails to produce it.
C13_TextureCount ==
    (mcomp.done /\ mcomp.some) =>
        /\ mcomp.len = mcount
        /\ titer.end = mcount
        /\ ~tpanic
        /\ tseen = [k \in 1 .. titer.next |-> k - 1]

\* C14 as stated: a produced texture definition has blend_op Replace exactly
\* when the engine reported no recognised blend operation, the reported
\* operation otherwise; its strength is 1.0 for Replace and the engine's
\* blend factor otherwise.
C14_BlendDefaults ==
    tdef.some =>
        LET reported == tslot.op.set /\ BlendOp_try_from(tslot.op.v).ok IN
            /\ (tdef.blend_op = "Replace") <=> ~reported
            /\ reported => tdef.blend_op = BlendOp_try_from(tslot.op.v).variant
            /\ tdef.strength = IF tdef.blend_op = "Replace" THEN 23 .. 29
                               ELSE tslot.blend.v


\* ------------------------------------ claims on nodes (NodeSpec)

\* C15 as stated: Node::meshes returns exactly num_meshes indices, as they
\* are stored; resolving one of them against the scene is absent when it is
\* at or beyond the scene's mesh count, and reads no mesh outside the array.
C15_MeshIndexSafety ==
    /\ nres.done =>
        /\ nres.tag = "Slice"
        /\ nres.items = meshIdx
        /\ Len(nres.items) = Node_num_meshes
    /\ sres.done =>
        /\ sres.some <=> sres.id < sceneMeshes
        /\ \A o \in sres.at : o < sceneMeshes


\* ------------------------------------ claims on faces (FaceSpec)

\* The number of indices of the face: none when the index array is null.
IndexCount == IF mIndices = 0 THEN 0 ELSE mNumIndices

\* C16: primitive_type classifies a face by its index count: 1 is a Point,
\* 2 a Line, 3 a Triangle, 4 or more a Polygon; a face with no indices
\* never receives a kind (the call panics instead of returning one).
C16_KindByIndexCount ==
    kres.done =>
        /\ IndexCount = 0 => kres.tag = "Panic"
        /\ IndexCount = 1 => kres = Kind("Point")
        /\ IndexCount = 2 => kres = Kind("Line")
        /\ IndexCount = 3 => kres = Kind("Triangle")
        /\ IndexCount >= 4 => kres = Kind("Polygon")

\* A face with more than four indices was classified as a polygon.
C16_Witness ==
    /\ IndexCount > 4
    /\ kres = Kind("Polygon")
    /\ fres.done
    /\ Len(fres.items) = IndexCount


\* ------------------------------------ claims on the I/O bridge (IoSpec)

\* The number of leading backend calls that moved exactly ioSize bytes.
LeadingFull ==
    Cardinality({j \in 1 .. Len(ioLog) :
        \A i \in 1 .. j : ioLog[i].ans = IoOk(ioSize)})

\* C17: in a stride call (size > 1, count >= 1) the bridge hands the
\* backend one element at a time, in order; no backend call follows a short
\* or failed one; and the value returned is the number of leading elements
\* fully transferred, at most count, never the error value.
C17_StrideTally ==
    (ioSize > 1 /\ ioCount >= 1) =>
        /\ Len(ioLog) <= ioCount
        /\ \A j \in 1 .. Len(ioLog) :
            /\ ioLog[j].off = (j - 1) * ioSize
            /\ ioLog[j].len = ioSize
            /\ j < Len(ioLog) => ioLog[j].ans = IoOk(ioSize)
        /\ ioPhase = "Loop" => LeadingFull = Len(ioLog)
        /\ ioPhase = "Returned" =>
            /\ ioRet = Ret(LeadingFull)
            /\ LeadingFull <= ioCount
            /\ Len(ioLog) = IF LeadingFull < ioCount THEN LeadingFull + 1
                            ELSE ioCount

\* A stride call of three elements returned 1: the second backend call was
\* short, and there was no third.
C17_Witness ==
    /\ ioSize > 1
    /\ ioCount = 3
    /\ ioPhase = "Returned"
    /\ ioRet = Ret(1)
    /\ Len(ioLog) = 2
    /\ ioLog[2].ans = IoOk(ioSize - 1)


\* ------------------------------------ claims on log streams (LogSpec)

\* How often the stream issued the engine call named c.
Issued(c) == Cardinality({j \in 1 .. Len(lsForeign) : lsForeign[j] = c})

\* Engine attach calls minus engine detach calls of the stream.
Balance == Issued("aiAttachLogStream") - Issued("aiDetachLogStream")

\* C18 as stated: after any sequence of attach() and detach() calls the
\* engine attach calls minus the engine detach calls are 0 or 1, the
\* attached field (and what attached() returns) is true exactly when the
\* stream is attached to the engine, and a detach() right after an
\* attach() issues the engine's detach.
C18_AttachIdempotent ==
    /\ Balance \in {0, 1}
    /\ lsAttached <=> Balance = 1
    /\ \A j \in 2 .. Len(lsCalls) :
        (lsCalls[j - 1] = "attach" /\ lsCalls[j] = "detach")
            => Issued("aiDetachLogStream") >= 1

\* C19 as stated: a dropped stream is no longer attached to the engine: if
\* attach() was called and the stream was not detached since, the drop
\* issued the engine's detach, exactly once; a stream on which attach() was
\* never called issued no detach.
C19_DetachOnDrop ==
    lsDropped =>
        /\ Balance = 0
        /\ (\A j \in 1 .. Len(lsCalls) : lsCalls[j] # "attach")
            => Issued("aiDetachLogStream") = 0


\* ------------------- claims on metadata and texture data (MetaSpec)

\* C20 as stated: accessors check a foreign pointer for null before they
\* dereference it.  On a node whose metadata pointer is null, metadata()
\* and the sequence it returns end no process, read nothing through the
\* null pointer and yield no item; Texture::data() is absent for a null
\* texel pointer.
C20_NullChecked ==
    /\ mMetaData = 0 =>
        /\ metaFault = "-"
        /\ 0 \notin metaRead
        /\ \A j \in 1 .. Len(metaOut) : metaOut[j] = None
    /\ (xres.done /\ pcData = 0) => ~xres.some


\* ------------------------------------ claims on mesh channels (ChannelSpec)

\* The array the last channel call was about (null beyond the slots).
AskedArray ==
    LET arrays == IF chCall.fn \in {"vertex_color", "vertex_colors"}
                  THEN mColors ELSE mTextureCoords IN
        IF chCall.set \in DOMAIN arrays THEN arrays[chCall.set] ELSE 0

\* C21 as stated: the per-vertex channel lookups and iterators never panic
\* and never read through null; a lookup is absent, and an iterator yields
\* nothing, when the channel array is null, the channel number is 8 or more
\* or the id is not below the vertex count; otherwise the lookup returns
\* the id-th element.
C21_ChannelAbsentSafe ==
    /\ chEnd = "-"
    /\ chCall.fn \in {"vertex_color", "texture_coord"} =>
        /\ res.done
        /\ IF AskedArray = 0 \/ chCall.set >= 8 \/ res.idx >= mNum
           THEN res.out = None /\ res.at = {}
           ELSE res.out.some /\ res.at = {res.idx}
    /\ (chCall.fn \in {"vertex_colors", "texture_coords"}
            /\ (AskedArray = 0 \/ chCall.set >= 8)) =>
        /\ iter.made
        /\ \A j \in 1 .. Len(yielded) : yielded[j] = None
        /\ itTouched = {}


\* ------------------------------- claims on inconsistent pairs (Spec)

\* The foreign array breaks its own invariant: a null pointer with a
\* nonzero count, or a non-null pointer with a zero count.
Inconsistent == (mPtr = 0 /\ mNum > 0) \/ (mPtr # 0 /\ mNum = 0)

\* C22 as stated: an iterator built from an inconsistent (pointer, count)
\* pair is not silently taken for an empty one: its next() never answers
\* with the plain absent value.
C22_InconsistentRejected ==
    (iter.made /\ Inconsistent) =>
        \A j \in 1 .. Len(yielded) : yielded[j] # None


\* ------------------------------- claims on the format hint (HintSpec)

\* C23 as stated: format_hint is None when the first byte of the hint field
\* is zero, and otherwise exactly the bytes of the field before its first
\* zero byte.
C23_HintText ==
    hres.done =>
        hres = IF achFormatHint[1] = 0 THEN NoHintText
               ELSE HintText(UpToNul(achFormatHint))


\* ------------------------------ claims on indirect iterators (Spec)

\* The positions below the count whose pointer slot is null.
NullSlots == {i \in 0 .. MaxLen : i < mNum /\ mem[i] = 0}

\* The position of the first null slot.
FirstNull == CHOOSE k \in NullSlots : \A i \in NullSlots : k <= i

\* C24: an indirect iterator over N pointer slots whose first null slot is
\* at position k < N yields the k items before the null, in order, and
\* nothing on every later call; its cursor never passes slot k, and nothing
\* after slot k is read.
C24_StopsAtNull ==
    (/\ iter.made
     /\ field \in IndirectIterFields
     /\ mPtr # 0
     /\ NullSlots # {})
    => /\ \A j \in 1 .. Len(yielded) :
            yielded[j] = IF j <= FirstNull THEN SomeRef(mem[j - 1]) ELSE None
       /\ iter.ptr <= mPtr + FirstNull
       /\ iter.len >= mNum - FirstNull
       /\ \A o \in itTouched : o <= FirstNull

\* C24 witness: three slots, the second null and the third not; the
\* iterator gave the first item and was called twice more.
C24_Witness ==
    /\ iter.made
    /\ field = "mChannels"
    /\ mPtr # 0
    /\ mNum = 3
    /\ mem[0] # 0
    /\ mem[1] = 0
    /\ mem[2] # 0
    /\ Len(yielded) >= 3
    /\ yielded[1].some

\* ------------------------------ claims on metadata entries (EntrySpec)

\* C25 as stated: get() decodes a known tag into the variant of that tag
\* and turns any other tag into an absent value; it never panics.
C25_UnknownTagAbsent ==
    eres.done =>
        /\ eres.tag # "Panic"
        /\ (mType \in KnownTags /\ mData # 0)
            => eres = EntryValue(VariantOf(mType))
        /\ mType \notin KnownTags => eres.tag = "None"

\* ------------------------- claims on the metadata iterator (MetaSpec)

\* C26: over a record with P properties the Metadata iterator never moves
\* its index beyond P.  With non-null key and value arrays its first P
\* calls yield the pairs 0 .. P-1 in order and every later call yields
\* nothing; with a null key or value array every call yields nothing and
\* the index stays 0.
C26_MetadataPairs ==
    (metaIter.made /\ mMetaData # 0) =>
        /\ metaIter.index <= mNumProperties
        /\ IF mKeys # 0 /\ mValues # 0
           THEN /\ \A j \in 1 .. Len(metaOut) :
                    metaOut[j] = IF j <= mNumProperties THEN SomePair(j - 1)
                                 ELSE None
                /\ metaIter.index = IF Len(metaOut) <= mNumProperties
                                    THEN Len(metaOut) ELSE mNumProperties
           ELSE /\ \A j \in 1 .. Len(metaOut) : metaOut[j] = None
                /\ metaIter.index = 0

\* C26 witness: a record of two or more properties was walked to its end
\* and asked twice more.
C26_Witness ==
    /\ metaIter.made
    /\ mMetaData # 0
    /\ mKeys # 0
    /\ mValues # 0
    /\ mNumProperties >= 2
    /\ Len(metaOut) = mNumProperties + 2
    /\ metaOut[mNumProperties].some
    /\ ~metaOut[mNumProperties + 1].some

\* ------------------------- claims on the backend file's life (FileSpec)

\* C27: io_open returns a null handle exactly when the backend's open
\* returns none; behind a non-null handle the backend file is alive, never
\* closed and never dropped, until io_close; io_close calls close() once
\* and then drops the file once.
C27_FileLifecycle ==
    /\ fOpen.called => (fOpen.handle = 0 <=> fOpen.ans = "None")
    /\ (fOpen.handle # 0 /\ fEnd # "Closed") =>
        /\ fFile = "Alive"
        /\ fEvents = <<>>
    /\ fEnd = "Closed" =>
        /\ fFile = "Dropped"
        /\ fEvents = <<"close", "drop">>

\* C27 witness: a file was read, sought and flushed, then closed.
C27_Witness ==
    /\ fEnd = "Closed"
    /\ Len(fLog) >= 3
    /\ \E i, j, k \in 1 .. Len(fLog) :
        fLog[i] = "read" /\ fLog[j] = "seek" /\ fLog[k] = "flush"

\* ------------------------------ claims on mesh vertices (VertexSpec)

\* The i-th element of a per-vertex array, absent for a null array.
Attribute(array, i) == IF array = 0 THEN None ELSE SomeVal(mem[Off(array) + i])

RemainingItems ==
    IF iter.ptr = 0 THEN 0
    ELSE IF field \in IndirectIterFields
         THEN Cardinality({i \in 0 .. iter.len - 1 :
                \A j \in 0 .. i : Mem(iter.ptr + j) # 0})
         ELSE iter.len

\* C29 as stated: in every state of an iterator, whatever its pointer and
\* count, len() is the number of items the remaining calls of next() will
\* yield, and it is 0 once next() has returned nothing.
C29_ExactSize ==
    iter.made =>
        /\ ExactSizeIterator_len(iter) = RemainingItems
        /\ (Len(yielded) > 0 /\ yielded[Len(yielded)] = None)
            => ExactSizeIterator_len(iter) = 0

\* ------------------------------- claims on the mapping and axis (ComponentSpec)

\* C30 as stated: every texture definition is produced; with an
\* unrecognised or UV mapping its axis is absent, and with a sphere,
\* cylinder, box or plane mapping the closure still completes and hands the
\* mapping through unchanged, with an absent (or stored) axis.
C30_MappingPassThrough ==
    (tslot.asked /\ tslot.ok) =>
        LET mapping == Mapping_try_from(tslot.mapping) IN
            /\ ~tpanic
            /\ tdef.some
            /\ tdef.mapping = (IF mapping.ok THEN mapping.variant ELSE "None")
            /\ (~mapping.ok \/ mapping.variant = "UV") => tdef.axis = "None"

====
